---- MODULE Spec2Model ----
(***************************************************************************)
(* Kratos AI: the remediation engine (src/src/remediation/engine.py), its  *)
(* safety validator (src/src/remediation/safety.py), the knowledge base    *)
(* with its incident corpus, patterns and outcome statistics               *)
(* (src/src/core/knowledge_base.py), the Brain (src/src/core/brain.py)     *)
(* with its failure predictor (src/src/ml/predictors.py) and the approval  *)
(* route (src/src/api/routes.py), as one state machine.                    *)
(*                                                                         *)
(* Time is the value of datetime.utcnow() in whole seconds.  Memory sizes  *)
(* are in MiB (Python integers do not overflow; TLC's do).  An Optional    *)
(* value is the empty tuple (None) or a one-element tuple.  Text is a      *)
(* tuple of its pieces, so that two texts are equal exactly when they are  *)
(* built from the same pieces.                                             *)
(***************************************************************************)
EXTENDS Integers, Sequences, FiniteSets, TLC

None == <<>>

Some(x) == <<x>>

(***************************************************************************)
(* Bounds of the exploration.                                              *)
(***************************************************************************)
MaxRems == 2

MaxExecutes == 2

MaxTicks == 1

\* the clock advances by one of these amounts (seconds) between two calls
Advances == {30, 3570}

\* the same for the engine: a cooldown
EngineAdvances == {60}

(***************************************************************************)
(* Program constants.                                                      *)
(***************************************************************************)
\* SafetyValidator.__init__: config.get("max_actions_per_hour", 20); the
\* engine is configured here with a limit of 2
max_actions_per_hour == 2

\* SafetyValidator.__init__: config.get("cooldown_seconds", 60)
cooldown_seconds == 60

\* timedelta(hours=1) in _check_rate_limit
HourSeconds == 3600

\* 4 * 1024**3 bytes, the default of max_allowed_memory_bytes, in MiB
DefaultMaxMemory == 4096

\* _generate_parameters: current_memory = 512 * 1024**2, in MiB
DefaultMemory == 512

high_risk_actions == {"drain_node", "rollback_deployment", "delete_pod", "update_secret", "cordon_node"}

protected_namespaces == {"kube-system", "kube-public", "kube-node-lease", "monitoring", "istio-system"}

\* protected_labels, in the insertion order of the dict
protected_label_keys == <<"app", "tier", "critical">>

protected_labels(k) ==
    CASE k = "app" -> {"database", "postgres", "mysql", "redis", "elasticsearch"}
      [] k = "tier" -> {"data", "database"}
      [] k = "critical" -> {"true", "yes"}

\* str.lower() on the label values that occur
Lower(v) ==
    CASE v = "Database" -> "database"
      [] v = "TRUE" -> "true"
      [] OTHER -> v

(***************************************************************************)
(* The inputs that occur: actions, resources, parameters, approvers.       *)
(***************************************************************************)

\* the keys of action_handlers after _register_default_handlers
action_handlers == {"scale_memory_up", "scale_memory_down", "scale_cpu_up", "scale_cpu_down",
                    "scale_replicas_up", "scale_replicas_down", "restart_pod", "delete_pod",
                    "rollback_deployment", "notify_only"}

ApiPod == [kind |-> "Pod", namespace |-> "production", name |-> "api", labels |-> ("app" :> "api-server")]

SystemPod == [kind |-> "Pod", namespace |-> "kube-system", name |-> "api", labels |-> <<>>]

DbPod == [kind |-> "Pod", namespace |-> "production", name |-> "db", labels |-> ("app" :> "Database")]


\* Remediation.parameters
NoParams == <<>>

ParamsOk == ("old_memory_bytes" :> 512) @@ ("new_memory_bytes" :> 768) @@ ("max_allowed_memory_bytes" :> DefaultMaxMemory)

ParamsTooBig == ("old_memory_bytes" :> 4096) @@ ("new_memory_bytes" :> 6144) @@ ("max_allowed_memory_bytes" :> DefaultMaxMemory)

\* the remediations callers ask for: (action, target_resource, parameters).
\* scale_memory_up has a handler and can be rolled back; cordon_node is
\* high-risk and has no handler
Requests ==
    { <<"scale_memory_up", Some(ApiPod), ParamsOk>>,
      <<"scale_memory_up", Some(SystemPod), ParamsOk>>,
      <<"cordon_node", None, NoParams>> }

\* approved_by: Optional[str]
Approvers == {None, Some("alice")}

\* RemediationApproval.approved_by: str
ApiApprovers == {Some(""), Some("alice")}

\* Python truth value of an Optional[str]
Truthy(a) == a # None /\ a[1] # ""

\* dict.get(key, default)
Get(d, k, default) == IF k \in DOMAIN d THEN d[k] ELSE default

(***************************************************************************)
(* SafetyValidator                                                         *)
(***************************************************************************)
SafetyCheck(name, passed, risk_level, blocking) ==
    [name |-> name, passed |-> passed, risk_level |-> risk_level, blocking |-> blocking]

\* the dictionary the engine hands to validate(...)
TargetDict(target) ==
    IF target = None
    THEN [kind |-> "Unknown", namespace |-> "default", name |-> "unknown", labels |-> <<>>]
    ELSE [kind |-> target[1].kind, namespace |-> target[1].namespace,
          name |-> target[1].name, labels |-> target[1].labels]

\* a key that leaves the namespace out
resource_key_no_namespace(t) == t.kind \o "/" \o t.name

\* f"{kind}/{namespace}/{name}"
resource_key(t) == t.kind \o "/" \o t.namespace \o "/" \o t.name

\* the entries _check_rate_limit keeps: t > now - 1 hour
CleanHistory(ah, t) == SelectSeq(ah, LAMBDA x : x > t - HourSeconds)

\* a limit that is only reached one action later
_check_rate_limit_late(ah, t) ==
    IF Len(CleanHistory(ah, t)) > max_actions_per_hour
    THEN SafetyCheck("rate_limit", FALSE, "high", TRUE)
    ELSE SafetyCheck("rate_limit", TRUE, "none", FALSE)

_check_rate_limit(ah, t) ==
    IF Len(CleanHistory(ah, t)) >= max_actions_per_hour
    THEN SafetyCheck("rate_limit", FALSE, "high", TRUE)
    ELSE SafetyCheck("rate_limit", TRUE, "none", FALSE)

_check_cooldown(rt, td, t) ==
    IF resource_key(td) \in DOMAIN rt /\ t - rt[resource_key(td)] < cooldown_seconds
    THEN SafetyCheck("cooldown", FALSE, "medium", TRUE)
    ELSE SafetyCheck("cooldown", TRUE, "none", FALSE)

_check_protected_namespace(td) ==
    IF td.namespace \in protected_namespaces
    THEN SafetyCheck("protected_namespace", FALSE, "high", FALSE)
    ELSE SafetyCheck("protected_namespace", TRUE, "none", FALSE)

\* the protected label keys whose (lower-cased) value is protected
ProtectedHits(labels) ==
    SelectSeq(protected_label_keys,
              LAMBDA k : Lower(Get(labels, k, "")) \in protected_labels(k))

_check_protected_workload(td) ==
    IF ProtectedHits(td.labels) # <<>>
    THEN SafetyCheck("protected_workload", FALSE, "high", FALSE)
    ELSE SafetyCheck("protected_workload", TRUE, "none", FALSE)

\* the message of the failed protected_workload check
WorkloadMessage(td) ==
    LET k == Head(ProtectedHits(td.labels))
    IN  <<"Workload has protected label: ", k, "=", Lower(Get(td.labels, k, ""))>>

_check_resource_limits(action, parameters) ==
    IF /\ action = "scale_memory_up"
       /\ Get(parameters, "new_memory_bytes", 0) > Get(parameters, "max_allowed_memory_bytes", DefaultMaxMemory)
    THEN SafetyCheck("resource_limits", FALSE, "medium", TRUE)
    ELSE IF /\ action = "scale_replicas_up"
            /\ Get(parameters, "new_replicas", 0) > Get(parameters, "max_replicas", 50)
    THEN SafetyCheck("resource_limits", FALSE, "medium", TRUE)
    ELSE SafetyCheck("resource_limits", TRUE, "none", FALSE)

\* RiskLevel is a str enum: >= compares the values as strings
RiskRank(r) ==
    CASE r = "critical" -> 1
      [] r = "high" -> 2
      [] r = "low" -> 3
      [] r = "medium" -> 4
      [] r = "none" -> 5

OverallRisk(checks) ==
    LET levels == {checks[i].risk_level : i \in DOMAIN checks}
    IN  IF "critical" \in levels THEN "critical"
        ELSE IF "high" \in levels THEN "high"
        ELSE IF "medium" \in levels THEN "medium"
        ELSE IF "low" \in levels THEN "low"
        ELSE "none"

\* the names of the failed blocking checks
BlockingFailures(checks) ==
    SelectSeq(checks, LAMBDA c : ~c.passed /\ c.blocking)

\* self.max_pods_affected_percent and self.max_nodes_affected_percent
max_pods_affected_percent == 25

max_nodes_affected_percent == 10

\* the pods and the nodes the action touches, of a cluster with total_pods
\* pods and total_nodes nodes
AffectedNodes(action) == IF action \in {"drain_node", "cordon_node"} THEN 1 ELSE 0

AffectedPods(action, cluster_state) ==
    IF action \in {"drain_node", "cordon_node"}
    THEN IF cluster_state.total_nodes > 0
         THEN cluster_state.total_pods \div cluster_state.total_nodes
         ELSE cluster_state.total_pods
    ELSE 1

\* affected / total * 100 > percent, 0 % of an empty total
PercentAbove(affected, total, percent) == total > 0 /\ affected * 100 > percent * total

\* the message of a blast_radius check that is not blocking and failed; the
\* percentage of nodes is in tenths of a percent, rounded as {:.1f} prints it
BlastMessage(action, cluster_state) ==
    <<"Would affect ",
      (AffectedNodes(action) * 2000 + cluster_state.total_nodes)
          \div (2 * cluster_state.total_nodes),
      "% of nodes (max ", max_nodes_affected_percent, "%)">>

_check_blast_radius(action, td, cluster_state) ==
    IF PercentAbove(AffectedPods(action, cluster_state), cluster_state.total_pods,
                    max_pods_affected_percent)
    THEN SafetyCheck("blast_radius", FALSE, "critical", TRUE)
    ELSE IF PercentAbove(AffectedNodes(action), cluster_state.total_nodes,
                         max_nodes_affected_percent)
    THEN SafetyCheck("blast_radius", FALSE, "high", FALSE)
    ELSE SafetyCheck("blast_radius", TRUE,
                     IF PercentAbove(AffectedPods(action, cluster_state),
                                     cluster_state.total_pods, 5)
                     THEN "low" ELSE "none",
                     FALSE)

\* validate(action, target_resource, parameters, cluster_state): each approval
\* trigger assigns approval_reason in turn, so the last one that triggered
\* stays; `if cluster_state:` leaves check 6 out for None
validate_cluster_state(ah, rt, action, td, parameters, cluster_state, t) ==
    LET rate_check == _check_rate_limit(ah, t)
        cooldown_check == _check_cooldown(rt, td, t)
        namespace_check == _check_protected_namespace(td)
        workload_check == _check_protected_workload(td)
        high == IF action \in high_risk_actions
                THEN <<SafetyCheck("high_risk_action", TRUE, "high", FALSE)>>
                ELSE <<>>
        blast == IF cluster_state # None
                 THEN <<_check_blast_radius(action, td, cluster_state[1])>>
                 ELSE <<>>
        blast_high == blast # <<>> /\ blast[1].risk_level = "high"
        resource_check == _check_resource_limits(action, parameters)
        checks == <<rate_check, cooldown_check, namespace_check, workload_check>>
                  \o high \o blast \o <<resource_check>>
        reason == IF blast_high THEN Some(BlastMessage(action, cluster_state[1]))
                  ELSE IF action \in high_risk_actions
                       THEN Some(<<"High-risk action: ", action>>)
                  ELSE IF ~workload_check.passed THEN Some(WorkloadMessage(td))
                  ELSE IF ~namespace_check.passed
                       THEN Some(<<"Target is in protected namespace: ", td.namespace>>)
                  ELSE None
    IN  [safe |-> BlockingFailures(checks) = <<>>,
         overall_risk |-> OverallRisk(checks),
         checks |-> checks,
         warnings |-> IF RiskRank(resource_check.risk_level) >= RiskRank("medium")
                      THEN <<resource_check.name>> ELSE <<>>,
         requires_approval |-> \/ ~namespace_check.passed
                               \/ ~workload_check.passed
                               \/ action \in high_risk_actions
                               \/ blast_high,
         approval_reason |-> reason]

\* validate(action, target_resource, parameters), as the engine calls it
validate(ah, rt, action, td, parameters, t) ==
    validate_cluster_state(ah, rt, action, td, parameters, None, t)

RECURSIVE JoinNames(_)
\* ", ".join(names), as the tuple of its pieces
JoinNames(cs) ==
    IF cs = <<>> THEN <<>>
    ELSE IF Len(cs) = 1 THEN <<cs[1].name>>
    ELSE <<cs[1].name, ", ">> \o JoinNames(Tail(cs))

\* SafetyValidation.get_summary
get_summary(v) ==
    IF v.safe
    THEN <<"SAFE (", ToString(Len(SelectSeq(v.checks, LAMBDA c : c.passed))), "/",
           ToString(Len(v.checks)), " checks passed, risk: ", v.overall_risk, ")">>
    ELSE <<"BLOCKED by: ">> \o JoinNames(BlockingFailures(v.checks))

(***************************************************************************)
(* State                                                                   *)
(***************************************************************************)
VARIABLES
    now,                \* datetime.utcnow(), seconds
    ticks,              \* how often the clock has advanced
    executes,           \* how many execute calls have been made
    dry_run,            \* RemediationEngine.dry_run
    rems,               \* the Remediation objects: rems[id]
    plans,              \* the RemediationPlan objects callers hold
    history,            \* RemediationEngine.history, as remediation ids
    pending_approvals,  \* RemediationEngine.pending_approvals: id -> plan
    action_history,     \* SafetyValidator.action_history
    recent_targets,     \* SafetyValidator.recent_targets: key -> time
    kb_remediations,    \* the keys of KnowledgeBase.remediations
    recorded,           \* every record_action call so far: target and time
    last,               \* the call made by the last step and what it did
    brain,              \* the KratosBrain that owns the engine, if there is one
    kb                  \* the KnowledgeBase: corpus, indexes, patterns, storage

vars == <<now, ticks, executes, dry_run, rems, plans, history, pending_approvals,
          action_history, recent_targets, kb_remediations, recorded, last, brain, kb>>

\* Remediation(...) with the dataclass defaults
Remediation(action, target, parameters) ==
    [action |-> action, target_resource |-> target, parameters |-> parameters,
     outcome |-> "pending_approval", executed_at |-> None, completed_at |-> None,
     error_message |-> None, requires_approval |-> FALSE, approved_by |-> None,
     rollback_remediation_id |-> None]

\* RemediationPlan(...): the remediation (by id) and its validation
RemediationPlan(rid, validation) ==
    [remediation |-> rid, safety_validation |-> validation]

\* Remediation.is_successful
is_successful(r) == r.outcome \in {"success", "dry_run"}

\* what a step reports about the call it made
Call(op) ==
    [op |-> op, rid |-> 0, approved_by |-> None, handler |-> "not_called",
     kb_calls |-> 0, record_action_calls |-> 0, raised |-> None,
     validation |-> None, target |-> None, result |-> None, args |-> None,
     io |-> "none"]

\* what a registered handler may do when it is called
HandlerResults == {"true", "false", "raise"}

\* str(e) of the exception a handler raises
HandlerError == <<"handler error">>

\* the engine and validator state as one value
Engine ==
    [rems |-> rems, history |-> history, pending_approvals |-> pending_approvals,
     action_history |-> action_history, recent_targets |-> recent_targets,
     kb_remediations |-> kb_remediations, recorded |-> recorded]

(***************************************************************************)
(* SafetyValidator.record_action and KnowledgeBase.record_remediation      *)
(***************************************************************************)
record_action(e, td, t) ==
    [e EXCEPT !.action_history = Append(@, t),
              !.recent_targets = (resource_key(td) :> t) @@ @,
              !.recorded = Append(@, [kind |-> td.kind, namespace |-> td.namespace,
                                      name |-> td.name, at |-> t])]

\* self.remediations[remediation.id] = remediation
record_remediation(e, rid) ==
    [e EXCEPT !.kb_remediations = @ \cup {rid}]

(***************************************************************************)
(* RemediationEngine.execute                                               *)
(***************************************************************************)
\* a missing safety gate
BlockedBySafety_off(plan) == FALSE

\* the safety gate: the plan is refused
BlockedBySafety(plan) == ~plan.safety_validation.safe

\* an approval gate that takes any string, the empty one too, for an approver
NeedsApproval_is_none(plan, approved_by) ==
    plan.safety_validation.requires_approval /\ approved_by = None

\* the approval gate: the plan has to wait
NeedsApproval(plan, approved_by) ==
    plan.safety_validation.requires_approval /\ ~Truthy(approved_by)

\* an except branch that keeps neither the message nor the completion time
ExecuteFailed_outcome_only(r, t) == [r EXCEPT !.outcome = "failed"]

\* a dry-run test that is never taken
DryRunBranch_never(dry) == FALSE

\* if self.dry_run: the try body's first branch
DryRunBranch(dry) == dry

\* the except branch: the handler raised
ExecuteFailed(r, t) ==
    [r EXCEPT !.outcome = "failed", !.error_message = Some(HandlerError),
              !.completed_at = Some(t)]

\* the bookkeeping after the try body's dispatch
PostExecution(e, rid, t) ==
    LET e1 == [e EXCEPT !.rems[rid].completed_at = Some(t),
                        !.history = Append(@, rid)]
        e2 == record_remediation(e1, rid)
        target == e.rems[rid].target_resource
    IN  IF target # None THEN record_action(e2, TargetDict(target), t) ELSE e2

\* execute(plan, approved_by): the state after the call and what the call did;
\* h is what the handler does if it is called
execute(e, plan, approved_by, h, dry, t) ==
    LET rid == plan.remediation
        none == [handler |-> "not_called", kb_calls |-> 0, record_action_calls |-> 0,
                 raised |-> None]
    IN  IF BlockedBySafety(plan)
        THEN [state |-> [e EXCEPT !.rems[rid].outcome = "skipped",
                                  !.rems[rid].error_message = Some(get_summary(plan.safety_validation))],
              did |-> none]
        ELSE IF NeedsApproval(plan, approved_by)
        THEN [state |-> [e EXCEPT !.rems[rid].outcome = "pending_approval",
                                  !.pending_approvals = (rid :> plan) @@ @],
              did |-> none]
        ELSE
        LET e1 == [e EXCEPT !.rems[rid].approved_by =
                                 IF Truthy(approved_by) THEN approved_by ELSE @,
                            !.rems[rid].executed_at = Some(t)]
            bookkept == [handler |-> "not_called", kb_calls |-> 1,
                         record_action_calls |->
                             IF e.rems[rid].target_resource # None THEN 1 ELSE 0,
                         raised |-> None]
        IN  IF DryRunBranch(dry)
            THEN [state |-> PostExecution([e1 EXCEPT !.rems[rid].outcome = "dry_run"], rid, t),
                  did |-> bookkept]
            ELSE IF e.rems[rid].action \in action_handlers
            THEN IF h = "raise"
                 THEN [state |-> [e1 EXCEPT !.rems[rid] = ExecuteFailed(@, t)],
                       did |-> [none EXCEPT !.handler = h]]
                 ELSE [state |-> PostExecution(
                                   [e1 EXCEPT !.rems[rid].outcome =
                                        IF h = "true" THEN "success" ELSE "failed"], rid, t),
                       did |-> [bookkept EXCEPT !.handler = h]]
            ELSE [state |-> PostExecution([e1 EXCEPT !.rems[rid].outcome = "skipped"], rid, t),
                  did |-> bookkept]

\* the variables take the values of an engine state
Install(e) ==
    /\ rems' = e.rems
    /\ history' = e.history
    /\ pending_approvals' = e.pending_approvals
    /\ action_history' = e.action_history
    /\ recent_targets' = e.recent_targets
    /\ kb_remediations' = e.kb_remediations
    /\ recorded' = e.recorded

(***************************************************************************)
(* RemediationEngine.plan_remediation                                      *)
(***************************************************************************)
\* the incidents and predictions handed to plan_remediation; metrics_snapshot
\* is the snapshot's memory_limit_bytes (MiB), if there is a snapshot
Incidents ==
    {None, Some([type |-> "oom_kill", resource |-> Some(SystemPod), metrics_snapshot |-> Some(1024)])}

\* the pod whose memory limit of 1 GiB the prediction was made from
ApiServerPod ==
    [kind |-> "Pod", namespace |-> "production", name |-> "api-server-abc123",
     labels |-> ("app" :> "api-server")]

\* Prediction has no field for the metrics it was made from
Predictions ==
    {None} \cup {Some([incident_type |-> "oom_kill", target_resource |-> Some(ApiPod),
                       eta_seconds |-> eta]) : eta \in {None, Some(300)}}
           \cup {Some([incident_type |-> "oom_kill", target_resource |-> Some(ApiServerPod),
                       eta_seconds |-> Some(300)])}

SuggestedActions == {None, Some("scale_replicas_up")}

\* _select_action_for_incident / _select_action_for_prediction for oom_kill
\* with no recommendation above 0.6
SelectAction(incident, prediction, suggested_action) ==
    IF suggested_action # None THEN suggested_action[1] ELSE "scale_memory_up"

\* the target plan_remediation determines
PlanTarget(incident, prediction) ==
    IF incident # None /\ incident[1].resource # None THEN incident[1].resource
    ELSE IF prediction # None /\ prediction[1].target_resource # None
         THEN prediction[1].target_resource
    ELSE None

\* _generate_parameters: memory in MiB; int(current * 1.5) is exact for the
\* even sizes used here
_generate_parameters(action, incident, prediction) ==
    CASE action = "scale_memory_up" ->
            LET current_memory ==
                    IF incident # None /\ incident[1].metrics_snapshot # None
                    THEN incident[1].metrics_snapshot[1]
                    ELSE DefaultMemory
            IN  ("old_memory_bytes" :> current_memory)
                @@ ("new_memory_bytes" :> (current_memory * 3) \div 2)
                @@ ("max_allowed_memory_bytes" :> DefaultMaxMemory)
      [] action = "scale_replicas_up" -> ("increase_by" :> 1) @@ ("max_replicas" :> 10)
      [] action = "scale_replicas_down" -> ("decrease_by" :> 1) @@ ("min_replicas" :> 1)
      [] OTHER -> NoParams

\* the validation plan_remediation would ask for after the explanation
PlannedValidation(ah, rt, incident, prediction, suggested_action, t) ==
    LET action == SelectAction(incident, prediction, suggested_action)
    IN  validate(ah, rt, action, TargetDict(PlanTarget(incident, prediction)),
                 _generate_parameters(action, incident, prediction), t)

\* _generate_explanation: the exception it ends with.  Its return statement
\* formats {resolve if incident else prevent}, two names that are not defined
_generate_explanation(action, incident, prediction) ==
    IF ~(incident # None /\ incident[1].metrics_snapshot # None)
       /\ prediction # None /\ prediction[1].eta_seconds = None
    THEN "TypeError"       \* _generate_analysis formats eta_minutes = None with :.0f
    ELSE "NameError"       \* increase_by in _describe_action, or resolve / prevent

\* plan_remediation(incident, prediction, suggested_action): the exception it
\* raises; no line after the explanation is reached
plan_remediation(incident, prediction, suggested_action) ==
    IF incident = None /\ prediction = None
    THEN "ValueError"
    ELSE _generate_explanation(SelectAction(incident, prediction, suggested_action),
                               incident, prediction)

(***************************************************************************)
(* RemediationEngine.rollback                                              *)
(***************************************************************************)
_get_rollback_action(action) ==
    CASE action = "scale_memory_up" -> Some("scale_memory_down")
      [] action = "scale_memory_down" -> Some("scale_memory_up")
      [] action = "scale_cpu_up" -> Some("scale_cpu_down")
      [] action = "scale_cpu_down" -> Some("scale_cpu_up")
      [] action = "scale_replicas_up" -> Some("scale_replicas_down")
      [] action = "scale_replicas_down" -> Some("scale_replicas_up")
      [] OTHER -> None

_get_rollback_parameters(parameters) ==
    IF {"old_memory_bytes", "new_memory_bytes"} \subseteq DOMAIN parameters
    THEN [k \in DOMAIN parameters |->
            IF k = "old_memory_bytes" THEN parameters["new_memory_bytes"]
            ELSE IF k = "new_memory_bytes" THEN parameters["old_memory_bytes"]
            ELSE parameters[k]]
    ELSE parameters

\* the links rollback sets when the rollback remediation is successful
LinkRollback(rs, original, result) ==
    IF is_successful(rs[result])
    THEN [rs EXCEPT ![original].rollback_remediation_id = Some(result),
                    ![result].rollback_remediation_id = Some(original)]
    ELSE rs

(***************************************************************************)
(* KratosBrain                                                             *)
(***************************************************************************)
KratosMode == {"observe", "predict", "recommend", "semi_auto", "auto"}

(***************************************************************************)
(* FailurePredictor (ml/predictors.py).  Probabilities are in              *)
(* ten-thousandths, utilisations in thousandths of a percent, memory in    *)
(* MiB and CPU in millicores; a quotient is rounded down.  The predictor's *)
(* state is the list of the features of the predict calls made so far: the *)
(* anomaly detector's windows and the forecaster's series hold the same    *)
(* values, one per call and metric.                                        *)
(***************************************************************************)
ProbabilityUnit == 10000

PercentUnit == 1000

\* AnomalyDetector.predict: a metric is scored from this many samples on
min_samples_for_score == 10

\* TimeSeriesForecaster.min_points_for_forecast
min_points_for_forecast == 10

Min(a, b) == IF a <= b THEN a ELSE b

\* FailurePredictor() after __init__: no sample, no series
FailurePredictor == [series |-> <<>>]

\* ResourceMetrics(cpu_usage_cores, cpu_limit_cores, memory_usage_bytes,
\* memory_limit_bytes)
ResourceMetrics(cpu_usage, cpu_limit, memory_usage, memory_limit) ==
    [cpu_usage_cores |-> cpu_usage, cpu_limit_cores |-> cpu_limit,
     memory_usage_bytes |-> memory_usage, memory_limit_bytes |-> memory_limit]

\* ResourceMetrics.cpu_utilization / memory_utilization: percent of the limit,
\* 0 without a limit
Utilization(usage, limit) ==
    IF limit = 0 THEN 0 ELSE (usage * 100 * PercentUnit) \div limit

cpu_utilization(m) == Utilization(m.cpu_usage_cores, m.cpu_limit_cores)

memory_utilization(m) == Utilization(m.memory_usage_bytes, m.memory_limit_bytes)

\* the predictor can be called while every window stays below the size from
\* which the detector scores and the forecaster smooths
Unscored(p) == Len(p.series) + 1 < min_samples_for_score

Unsmoothed(p) == Len(p.series) + 1 < min_points_for_forecast

SetMax(S) == CHOOSE x \in S : \A y \in S : y <= x

\* the metrics of the features, all of them numbers
MetricNames == {"cpu_usage_cores", "cpu_limit_cores", "memory_usage_bytes", "memory_limit_bytes"}

RECURSIVE Sum(_)
Sum(values) == IF values = <<>> THEN 0 ELSE Head(values) + Sum(Tail(values))

RECURSIVE GCD(_, _)
GCD(a, b) == IF b = 0 THEN a ELSE GCD(b, a % b)

\* the z-scores are in hundredths
ZUnit == 100

\* the largest z-score of a window: sqrt(n - 1), for one value apart from
\* n - 1 equal ones; the windows of the model stay below 17 values
MaxZ == 4 * ZUnit

\* the square root, rounded down
Isqrt(x) == CHOOSE z \in 0..MaxZ : z * z <= x /\ (z + 1) * (z + 1) > x

\* abs(value - mean) / std of a window whose last value is the new one, with
\* mean = S / n and std^2 = (n * Q - S^2) / n^2 for the sum S and the sum of
\* squares Q; a window of equal values has std 0.001 and value = mean
ZScoreOf(n, value, S, Q) ==
    IF n * Q - S * S = 0 THEN 0
    ELSE LET num == (n * value - S) * (n * value - S)
             den == n * Q - S * S
             g == GCD(num, den)
         IN  Isqrt(((num \div g) * ZUnit * ZUnit) \div (den \div g))

ZScore(values) ==
    CHOOSE z \in {ZScoreOf(Len(values), values[Len(values)], Sum(values),
                           Sum([i \in DOMAIN values |-> values[i] * values[i]]))} : TRUE

\* the z-scores of the metrics that have min_samples_for_score samples
ZScores(series) ==
    IF Len(series) < min_samples_for_score THEN {}
    ELSE {ZScore([i \in DOMAIN series |-> series[i][m]]) : m \in MetricNames}

\* the probability AnomalyDetector.predict gives to max_z_score, with
\* anomaly_threshold 3.0 and warning_threshold 2.0
AnomalyProbability(max_z_score) ==
    IF max_z_score >= 3 * ZUnit
    THEN Min((ProbabilityUnit * 95) \div 100,
             ProbabilityUnit \div 2
                 + ((max_z_score - 3 * ZUnit) * 15 * ProbabilityUnit) \div (100 * ZUnit))
    ELSE IF max_z_score >= 2 * ZUnit
    THEN (3 * ProbabilityUnit) \div 10
             + ((max_z_score - 2 * ZUnit) * 2 * ProbabilityUnit) \div (10 * ZUnit)
    ELSE (max_z_score * 15 * ProbabilityUnit) \div (100 * ZUnit)

\* AnomalyDetector.predict after the features were added to the windows: a
\* metric with fewer than min_samples_for_score samples is skipped, a z-score
\* of anomaly_threshold or more is an anomaly
AnomalyDetector_predict(series) ==
    LET max_z_score == CHOOSE z \in {SetMax(ZScores(series) \cup {0})} : TRUE
    IN  [predicted |-> max_z_score >= 3 * ZUnit,
         probability |-> AnomalyProbability(max_z_score)]

\* is the series of the metric one value repeated
Constant(series, metric_name) ==
    \A i \in DOMAIN series : series[i][metric_name] = series[1][metric_name]

\* the predictor can be called while the forecaster's series of the usages
\* are below min_points_for_forecast or constant
Forecastable(series) ==
    \/ Len(series) < min_points_for_forecast
    \/ Constant(series, "memory_usage_bytes") /\ Constant(series, "cpu_usage_cores")

\* TimeSeriesForecaster._forecast: the last value of a series below
\* min_points_for_forecast; on a constant series Holt's level stays the value
\* and its trend 0, whatever the interval between the points
_forecast(series, metric_name) ==
    IF series = <<>> THEN 0 ELSE series[Len(series)][metric_name]

\* TimeSeriesForecaster.predict after the features were added to the series
BreachPredictions(series, features) ==
    LET memory == Utilization(_forecast(series, "memory_usage_bytes"),
                              features.memory_limit_bytes)
        cpu == Utilization(_forecast(series, "cpu_usage_cores"), features.cpu_limit_cores)
    IN  (IF features.memory_limit_bytes > 0 /\ memory >= 95 * PercentUnit
         THEN {Min((ProbabilityUnit * 95) \div 100,
                   ((memory - 90 * PercentUnit) * ProbabilityUnit) \div (10 * PercentUnit))}
         ELSE {})
        \cup
        (IF features.cpu_limit_cores > 0 /\ cpu >= 90 * PercentUnit
         THEN {Min((ProbabilityUnit * 90) \div 100,
                   ((cpu - 85 * PercentUnit) * ProbabilityUnit) \div (15 * PercentUnit))}
         ELSE {})

TimeSeriesForecaster_predict(series, features) ==
    LET breach_predictions == BreachPredictions(series, features)
    IN  IF breach_predictions # {}
        THEN [predicted |-> TRUE, probability |-> SetMax(breach_predictions)]
        ELSE [predicted |-> FALSE, probability |-> ProbabilityUnit \div 10]

\* FailurePredictor._check_patterns: "for now, return neutral"
_check_patterns(features) == 0

\* FailurePredictor.predict(features): the sub-models take the features into
\* their windows and series, then the ensemble weighs 0.3 / 0.4 / 0.3 and
\* raises by 1.3, up to 0.98, when two signals agree
predict(p, features) ==
    LET series == Append(p.series, features)
        anomaly_result == AnomalyDetector_predict(series)
        ts_result == TimeSeriesForecaster_predict(series, features)
        pattern_probability == _check_patterns(features)
        weighted_probability ==
            (3 * anomaly_result.probability + 4 * ts_result.probability
                + 3 * pattern_probability) \div 10
        signals_triggered ==
            (IF anomaly_result.predicted THEN 1 ELSE 0)
            + (IF ts_result.predicted THEN 1 ELSE 0)
            + (IF pattern_probability > ProbabilityUnit \div 2 THEN 1 ELSE 0)
        probability ==
            IF signals_triggered >= 2
            THEN Min((ProbabilityUnit * 98) \div 100, (weighted_probability * 13) \div 10)
            ELSE weighted_probability
    IN  [predictor |-> [p EXCEPT !.series = series],
         signals |-> [anomaly |-> anomaly_result, time_series |-> ts_result,
                      pattern |-> pattern_probability],
         result |-> [predicted |-> probability > ProbabilityUnit \div 2,
                     probability |-> probability]]

\* PredictionConfidence chosen by predict_for_resource
PredictionConfidence(probability) ==
    CASE probability * 10 >= 9 * ProbabilityUnit -> "very_high"
      [] probability * 10 >= 8 * ProbabilityUnit -> "high"
      [] probability * 10 >= 7 * ProbabilityUnit -> "medium"
      [] probability * 10 >= 5 * ProbabilityUnit -> "low"
      [] OTHER -> "uncertain"

\* KratosBrain.predict_for_resource(resource, metrics): the Prediction, without
\* its evidence texts and its eta
predict_for_resource(b, resource, metrics) ==
    LET out == predict(b.failure_predictor, metrics)
    IN  [brain |-> [b EXCEPT !.failure_predictor = out.predictor],
         result |-> [incident_type |->
                         IF memory_utilization(metrics) > cpu_utilization(metrics)
                         THEN "oom_kill" ELSE "resource_exhaustion",
                     target_resource |-> Some(resource),
                     probability |-> out.result.probability,
                     confidence |-> PredictionConfidence(out.result.probability)]]

\* KratosBrain(k8s_client, mode) after __init__: not running, no task created,
\* an empty knowledge base.  steps lists, in the order they are taken, the
\* steps of the incidents the Brain handles
KratosBrain(k8s_client, mode) ==
    [mode |-> mode, k8s_client |-> k8s_client, is_running |-> FALSE, tasks |-> <<>>,
     incidents |-> <<>>, steps |-> <<>>, starts |-> 0, passes |-> 0,
     failure_predictor |-> FailurePredictor]

\* an engine that was constructed on its own
NoBrain == KratosBrain(FALSE, "none")

(***************************************************************************)
(* KnowledgeBase._normalize_error_message.  A message is the tuple of its  *)
(* characters; re.sub scans from the left and, where the pattern matches,  *)
(* writes the replacement and goes on behind the match.                    *)
(***************************************************************************)
Digits == {"0", "1", "2", "3", "4", "5", "6", "7", "8", "9"}

Uppers == <<"A", "B", "C", "D", "E", "F", "G", "H", "I", "J", "K", "L", "M",
            "N", "O", "P", "Q", "R", "S", "T", "U", "V", "W", "X", "Y", "Z">>

Lowers == <<"a", "b", "c", "d", "e", "f", "g", "h", "i", "j", "k", "l", "m",
            "n", "o", "p", "q", "r", "s", "t", "u", "v", "w", "x", "y", "z">>

Range(s) == {s[i] : i \in DOMAIN s}

\* [A-Z]
UpperLetters == Range(Uppers)

\* [0-9a-f]
HexLower == Digits \cup {"a", "b", "c", "d", "e", "f"}

\* [a-z0-9]
LowerAlnum == Digits \cup Range(Lowers)

\* the pattern is a sequence of character classes, one character each: does
\* it match at position i
MatchAt(s, i, classes) ==
    /\ i + Len(classes) - 1 <= Len(s)
    /\ \A k \in 1..Len(classes) : s[i + k - 1] \in classes[k]

\* class{n}
Times(class, n) == [k \in 1..n |-> class]

\* how many characters of the class stand at position i and behind it, at most max
RECURSIVE RunLength(_, _, _, _)
RunLength(s, i, class, max) ==
    IF max = 0 \/ i > Len(s) \/ s[i] \notin class THEN 0
    ELSE 1 + RunLength(s, i + 1, class, max - 1)

\* re.sub: lens[i] is the length of the match at position i, 0 for no match
RECURSIVE Replace(_, _, _, _)
Replace(s, lens, repl, i) ==
    IF i > Len(s) THEN <<>>
    ELSE IF lens[i] > 0 THEN repl \o Replace(s, lens, repl, i + lens[i])
    ELSE <<s[i]>> \o Replace(s, lens, repl, i + 1)

\* [0-9a-f]{8}-[0-9a-f]{4}-[0-9a-f]{4}-[0-9a-f]{4}-[0-9a-f]{12}
UuidPattern ==
    Times(HexLower, 8) \o <<{"-"}>> \o Times(HexLower, 4) \o <<{"-"}>> \o Times(HexLower, 4)
        \o <<{"-"}>> \o Times(HexLower, 4) \o <<{"-"}>> \o Times(HexLower, 12)

\* \d{4}-\d{2}-\d{2}[T ]\d{2}:\d{2}:\d{2}
TimestampPattern ==
    Times(Digits, 4) \o <<{"-"}>> \o Times(Digits, 2) \o <<{"-"}>> \o Times(Digits, 2)
        \o <<{"T", " "}>> \o Times(Digits, 2) \o <<{":"}>> \o Times(Digits, 2)
        \o <<{":"}>> \o Times(Digits, 2)

\* \d{1,3}\.\d{1,3}\.\d{1,3}\.\d{1,3}: the first three groups end at a dot,
\* the last takes up to three digits
RECURSIVE IpLength(_, _, _)
IpLength(s, i, groups) ==
    LET n == RunLength(s, i, Digits, 3)
    IN  IF n = 0 THEN 0
        ELSE IF groups = 1 THEN n
        ELSE IF i + n <= Len(s) /\ s[i + n] = "."
             THEN LET rest == IpLength(s, i + n + 1, groups - 1)
                  IN  IF rest = 0 THEN 0 ELSE n + 1 + rest
             ELSE 0

\* (?<![A-Z])\d{3,}(?![A-Z]): a run that ends before an upper-case letter
\* gives its last digit back
NumLength(s, i) ==
    LET n == RunLength(s, i, Digits, Len(s))
        behind == i > 1 /\ s[i - 1] \in UpperLetters
        ahead == i + n <= Len(s) /\ s[i + n] \in UpperLetters
    IN  IF behind \/ n < 3 THEN 0
        ELSE IF ~ahead THEN n
        ELSE IF n - 1 >= 3 THEN n - 1
        ELSE 0

\* -[a-z0-9]{5,10}(-[a-z0-9]{5})?
PodSuffixLength(s, i) ==
    IF i > Len(s) \/ s[i] # "-" THEN 0
    ELSE LET n == RunLength(s, i + 1, LowerAlnum, 10)
         IN  IF n < 5 THEN 0
             ELSE IF MatchAt(s, i + 1 + n, <<{"-"}>> \o Times(LowerAlnum, 5))
                  THEN 1 + n + 6
                  ELSE 1 + n

\* str.lower
ToLower(c) ==
    IF c \in UpperLetters THEN Lowers[CHOOSE k \in DOMAIN Uppers : Uppers[k] = c] ELSE c

\* str.strip
RECURSIVE Strip(_)
Strip(s) ==
    IF s = <<>> THEN s
    ELSE IF Head(s) = " " THEN Strip(Tail(s))
    ELSE IF s[Len(s)] = " " THEN Strip(SubSeq(s, 1, Len(s) - 1))
    ELSE s

\* the length of the pattern's match at position i of s, 0 for no match
MatchLength(pattern, s, i) ==
    CASE pattern = "uuid" -> IF MatchAt(s, i, UuidPattern) THEN Len(UuidPattern) ELSE 0
      [] pattern = "timestamp" ->
            IF MatchAt(s, i, TimestampPattern) THEN Len(TimestampPattern) ELSE 0
      [] pattern = "ip" -> IpLength(s, i, 4)
      [] pattern = "num" -> NumLength(s, i)
      [] pattern = "pod_suffix" -> PodSuffixLength(s, i)

\* re.sub(pattern, repl, s); the subject is evaluated once
Sub(pattern, repl, s) ==
    CHOOSE r \in {Replace(v, [i \in DOMAIN v |-> MatchLength(pattern, v, i)], repl, 1) :
                      v \in {s}} : TRUE

\* str.lower of the whole text
Lower_str(s) == CHOOSE r \in {[i \in DOMAIN v |-> ToLower(v[i])] : v \in {s}} : TRUE

\* the five substitutions, innermost first, then lower() and strip()
_normalize_error_message(message) ==
    Strip(Lower_str(
        Sub("pod_suffix", <<"-", "<", "P", "O", "D", "_", "S", "U", "F", "F", "I", "X", ">">>,
            Sub("num", <<"<", "N", "U", "M", ">">>,
                Sub("ip", <<"<", "I", "P", ">">>,
                    Sub("timestamp", <<"<", "T", "I", "M", "E", "S", "T", "A", "M", "P", ">">>,
                        Sub("uuid", <<"<", "U", "U", "I", "D", ">">>, message)))))))

\* the messages of the incidents, character by character
\* "CrashLoopBackOff"
MsgCrashLoopBackOff == <<"C", "r", "a", "s", "h", "L", "o", "o", "p", "B", "a", "c", "k", "O", "f", "f">>

\* "Test incident"
MsgTestIncident == <<"T", "e", "s", "t", " ", "i", "n", "c", "i", "d", "e", "n", "t">>

\* "OOM kill 0"
MsgOomKill0 == <<"O", "O", "M", " ", "k", "i", "l", "l", " ", "0">>

\* "OOM kill 1"
MsgOomKill1 == <<"O", "O", "M", " ", "k", "i", "l", "l", " ", "1">>

\* "OOM kill 2"
MsgOomKill2 == <<"O", "O", "M", " ", "k", "i", "l", "l", " ", "2">>

\* "OOM kill 3"
MsgOomKill3 == <<"O", "O", "M", " ", "k", "i", "l", "l", " ", "3">>

\* "OOM kill 4"
MsgOomKill4 == <<"O", "O", "M", " ", "k", "i", "l", "l", " ", "4">>

\* "OOM kill test"
MsgOomKillTest == <<"O", "O", "M", " ", "k", "i", "l", "l", " ", "t", "e", "s", "t">>

\* "cpu"
MsgCpu == <<"c", "p", "u">>

\* "MemoryPressure"
MsgMemoryPressure == <<"M", "e", "m", "o", "r", "y", "P", "r", "e", "s", "s", "u", "r", "e">>

KbMessages ==
    {MsgCrashLoopBackOff, MsgTestIncident, MsgOomKill0, MsgOomKill1, MsgOomKill2, MsgOomKill3, MsgOomKill4, MsgOomKillTest, MsgCpu, MsgMemoryPressure}

\* _normalize_error_message of each of these messages, computed once
NormalizedMessage == [m \in KbMessages |-> _normalize_error_message(m)]

(***************************************************************************)
(* KnowledgeBase: the incident corpus, its three indexes, the patterns,    *)
(* the outcome statistics and the two files of the storage directory.  An  *)
(* enum member and the string a JSON file gives back for it are told apart *)
(* by `enum`; Python compares the two by their value.  Rates are in        *)
(* millionths.                                                             *)
(***************************************************************************)
RateUnit == 1000000

DaySeconds == 86400

\* self.min_occurrences_for_pattern = 3
min_occurrences_for_pattern == 3

\* len(outcomes) >= 2 in get_recommended_actions
MinOutcomes == 2

\* confidence = len(similar_ids) / 10
ConfidenceDivisor == 10

\* alpha = 0.1 in _update_pattern_success_rates, as alpha = 1 / 10
AlphaDivisor == 10

\* the order of the RemediationAction enumeration
RemediationActionOrder ==
    <<"scale_memory_up", "scale_memory_down", "scale_cpu_up", "scale_cpu_down",
      "scale_replicas_up", "scale_replicas_down", "restart_pod", "delete_pod",
      "cordon_node", "drain_node", "rollback_deployment", "pause_deployment",
      "reset_network_policy", "update_service", "update_config_map", "update_secret",
      "update_resource_quota", "add_node_affinity", "remove_node_affinity",
      "update_priority_class", "custom_script", "notify_only", "no_action">>

\* an enum member
Member(v) == [value |-> v, enum |-> TRUE]

\* the str a JSON document holds for an enum member
Str(v) == [value |-> v, enum |-> FALSE]

\* x in list, for a str-valued enum member x
In(v, list) == \E i \in DOMAIN list : list[i].value = v

\* Incident(...) with the dataclass defaults; the id is a fresh uuid
Incident(id, type, resource, message, t) ==
    [id |-> id, type |-> type, severity |-> "medium", resource |-> resource,
     message |-> message, details |-> <<>>, metrics_snapshot |-> None,
     occurred_at |-> t, detected_at |-> t, resolved_at |-> None,
     root_cause |-> None, tags |-> <<>>]

\* datetime.isoformat and datetime.fromisoformat
isoformat(t) == <<"iso", t>>

fromisoformat(s) == s[2]

\* a round trip that forgets the labels of the resource
_incident_to_dict_no_labels(incident) ==
    [id |-> incident.id, type |-> incident.type, severity |-> incident.severity,
     resource |-> IF incident.resource # None
                  THEN Some([kind |-> incident.resource[1].kind,
                             name |-> incident.resource[1].name,
                             namespace |-> incident.resource[1].namespace,
                             labels |-> <<>>])
                  ELSE None,
     message |-> incident.message, details |-> incident.details,
     occurred_at |-> isoformat(incident.occurred_at),
     detected_at |-> isoformat(incident.detected_at),
     resolved_at |-> IF incident.resolved_at # None
                     THEN Some(isoformat(incident.resolved_at[1])) ELSE None,
     root_cause |-> incident.root_cause, tags |-> incident.tags]

\* the line of incidents.jsonl: the metrics snapshot is not written
_incident_to_dict(incident) ==
    [id |-> incident.id, type |-> incident.type, severity |-> incident.severity,
     resource |-> IF incident.resource # None
                  THEN Some([kind |-> incident.resource[1].kind,
                             name |-> incident.resource[1].name,
                             namespace |-> incident.resource[1].namespace,
                             labels |-> incident.resource[1].labels])
                  ELSE None,
     message |-> incident.message, details |-> incident.details,
     occurred_at |-> isoformat(incident.occurred_at),
     detected_at |-> isoformat(incident.detected_at),
     resolved_at |-> IF incident.resolved_at # None
                     THEN Some(isoformat(incident.resolved_at[1])) ELSE None,
     root_cause |-> incident.root_cause, tags |-> incident.tags]

_dict_to_incident(data) ==
    [id |-> data.id, type |-> data.type, severity |-> data.severity,
     resource |-> IF data.resource # None
                  THEN Some([kind |-> data.resource[1].kind,
                             name |-> data.resource[1].name,
                             namespace |-> data.resource[1].namespace,
                             labels |-> data.resource[1].labels])
                  ELSE None,
     message |-> data.message, details |-> data.details, metrics_snapshot |-> None,
     occurred_at |-> fromisoformat(data.occurred_at),
     detected_at |-> fromisoformat(data.detected_at),
     resolved_at |-> IF data.resolved_at # None
                     THEN Some(fromisoformat(data.resolved_at[1])) ELSE None,
     root_cause |-> data.root_cause, tags |-> data.tags]

\* the storage directory: the lines of incidents.jsonl and the document of
\* patterns.json, None while the file does not exist
EmptyStorage == [incidents_jsonl |-> None, patterns_json |-> None]

\* KnowledgeBase.__init__ before _load_from_storage
EmptyKnowledgeBase(storage) ==
    [incidents |-> <<>>, patterns |-> <<>>,
     _incident_by_type |-> <<>>, _incident_by_resource |-> <<>>,
     _incident_by_fingerprint |-> <<>>, _remediation_success_rate |-> <<>>,
     storage |-> storage]

\* _compute_fingerprint: the md5 of the sorted "k=v" list is one value per
\* label map
_compute_fingerprint(incident) ==
    LET resource == IF incident.resource # None THEN incident.resource[1]
                    ELSE [kind |-> "Unknown", name |-> "", namespace |-> "default",
                          labels |-> <<>>]
    IN  [incident_type |-> incident.type, resource_kind |-> resource.kind,
         namespace |-> resource.namespace, label_hash |-> resource.labels,
         error_pattern |-> NormalizedMessage[incident.message]]

\* IncidentFingerprint.to_hash: one value per content
to_hash(fingerprint) ==
    <<fingerprint.incident_type, fingerprint.resource_kind, fingerprint.namespace,
      fingerprint.label_hash, fingerprint.error_pattern>>

\* defaultdict(list)[key].append(id)
AppendTo(index, key, id) ==
    IF key \in DOMAIN index THEN [index EXCEPT ![key] = Append(@, id)]
    ELSE (key :> <<id>>) @@ index

_index_incident(k, incident) ==
    LET k1 == [k EXCEPT !.incidents = (incident.id :> incident) @@ @,
                        !._incident_by_type = AppendTo(@, incident.type, incident.id)]
        k2 == IF incident.resource # None
              THEN [k1 EXCEPT !._incident_by_resource =
                                  AppendTo(@, resource_key(incident.resource[1]), incident.id)]
              ELSE k1
    IN  [k2 EXCEPT !._incident_by_fingerprint =
                       AppendTo(@, to_hash(_compute_fingerprint(incident)), incident.id)]

\* open(incidents_file, "a") and one line
_save_incident(k, incident) ==
    [k EXCEPT !.storage.incidents_jsonl =
                  Some((IF @ = None THEN <<>> ELSE @[1]) \o <<_incident_to_dict(incident)>>)]

\* what the write of patterns.json meets
IoResults == {"ok", "error"}

\* _save_patterns: t.value and a.value need enum members; the file is opened
\* after the document is built.  Gives the storage, what was raised and how
\* the write of the file went, "none" if the file was not opened
_save_patterns(k, io) ==
    IF \E i \in DOMAIN k.patterns :
           \/ \E j \in DOMAIN k.patterns[i].incident_types :
                  ~k.patterns[i].incident_types[j].enum
           \/ \E j \in DOMAIN k.patterns[i].recommended_actions :
                  ~k.patterns[i].recommended_actions[j].enum
    THEN [kb |-> k, raised |-> Some("AttributeError"), io |-> "none"]
    ELSE IF io = "error"
    THEN [kb |-> k, raised |-> Some("OSError"), io |-> "error"]
    ELSE [kb |-> [k EXCEPT !.storage.patterns_json =
                     Some([i \in DOMAIN k.patterns |->
                            [id |-> k.patterns[i].id, name |-> k.patterns[i].name,
                             incident_types |->
                                 [j \in DOMAIN k.patterns[i].incident_types |->
                                     Str(k.patterns[i].incident_types[j].value)],
                             recommended_actions |->
                                 [j \in DOMAIN k.patterns[i].recommended_actions |->
                                     Str(k.patterns[i].recommended_actions[j].value)],
                             success_rate |-> k.patterns[i].success_rate,
                             occurrence_count |-> k.patterns[i].occurrence_count,
                             last_seen |-> isoformat(k.patterns[i].last_seen),
                             confidence |-> k.patterns[i].confidence]])],
          raised |-> None, io |-> "ok"]

\* _infer_actions: the action_map and its default
_infer_actions(incident_type) ==
    CASE incident_type = "oom_kill" -> <<"scale_memory_up", "restart_pod">>
      [] incident_type = "crash_loop" -> <<"restart_pod", "rollback_deployment">>
      [] incident_type = "image_pull_fail" -> <<"no_action">>
      [] incident_type \in {"readiness_fail", "liveness_fail"} -> <<"restart_pod">>
      [] incident_type = "node_not_ready" -> <<"cordon_node", "drain_node">>
      [] incident_type \in {"node_memory_pressure", "node_disk_pressure"} -> <<"drain_node">>
      [] incident_type = "resource_exhaustion" -> <<"scale_replicas_up", "scale_cpu_up">>
      [] incident_type = "eviction" -> <<"scale_memory_up">>
      [] incident_type = "pending_pod" -> <<"scale_replicas_down">>
      [] incident_type = "scaling_issue" -> <<"scale_replicas_up">>
      [] incident_type = "deployment_fail" -> <<"rollback_deployment">>
      [] OTHER -> <<"notify_only">>

\* f"{new_incident.type.value}_{fingerprint.to_hash()}"
pattern_name(incident) == <<incident.type, "_", to_hash(_compute_fingerprint(incident))>>

\* len(similar_ids) >= self.min_occurrences_for_pattern
PatternDue(n) == n >= min_occurrences_for_pattern

\* _detect_patterns: the knowledge base afterwards and what was raised
_detect_patterns(k, new_incident, t, io) ==
    LET hash == to_hash(_compute_fingerprint(new_incident))
        similar_ids == Get(k._incident_by_fingerprint, hash, <<>>)
        n == Len(similar_ids)
        name == pattern_name(new_incident)
        found == {i \in DOMAIN k.patterns : k.patterns[i].name = name}
    IN  IF ~PatternDue(n) THEN [kb |-> k, raised |-> None, io |-> "none"]
        ELSE IF found # {}
        THEN LET i == CHOOSE i \in found : \A j \in found : i <= j
             IN  _save_patterns(
                     [k EXCEPT !.patterns[i].occurrence_count = n,
                               !.patterns[i].last_seen = t,
                               !.patterns[i].confidence =
                                   Min(RateUnit, (n * RateUnit) \div ConfidenceDivisor)], io)
        ELSE _save_patterns(
                 [k EXCEPT !.patterns = Append(@,
                     [id |-> Len(k.patterns) + 1, name |-> name,
                      incident_types |-> <<Member(new_incident.type)>>,
                      recommended_actions |->
                          [j \in DOMAIN _infer_actions(new_incident.type) |->
                              Member(_infer_actions(new_incident.type)[j])],
                      success_rate |-> RateUnit \div 2,
                      occurrence_count |-> n, last_seen |-> t,
                      confidence |-> (n * RateUnit) \div ConfidenceDivisor])], io)

\* record_incident: the knowledge base afterwards, what was raised and what
\* was returned
record_incident(k, incident, t, io) ==
    LET d == _detect_patterns(_save_incident(_index_incident(k, incident), incident),
                              incident, t, io)
    IN  [kb |-> d.kb, raised |-> d.raised, io |-> d.io,
         result |-> IF d.raised = None THEN Some(incident.id) ELSE None]

\* the for loop of _load_from_storage over the lines of incidents.jsonl
RECURSIVE IndexLines(_, _)
IndexLines(k, lines) ==
    IF lines = <<>> THEN k
    ELSE IndexLines(_index_incident(k, _dict_to_incident(Head(lines))), Tail(lines))

\* KnowledgeBase(storage_path) on a directory that exists: Pattern(**p_data)
\* keeps what the document holds, strings for enum members and for last_seen
KnowledgeBase(storage) ==
    LET k == IF storage.incidents_jsonl # None
             THEN IndexLines(EmptyKnowledgeBase(storage), storage.incidents_jsonl[1])
             ELSE EmptyKnowledgeBase(storage)
    IN  IF storage.patterns_json # None
        THEN [k EXCEPT !.patterns = storage.patterns_json[1]]
        ELSE k

\* list.sort(key=..., reverse=True) on (key, item) pairs: equal keys keep
\* their order
RECURSIVE SortDescending(_)
SortDescending(pairs) ==
    IF pairs = <<>> THEN <<>>
    ELSE LET rest == SortDescending(SubSeq(pairs, 1, Len(pairs) - 1))
             x == pairs[Len(pairs)]
             before == SelectSeq(rest, LAMBDA y : y[1] >= x[1])
             after == SelectSeq(rest, LAMBDA y : y[1] < x[1])
         IN  before \o <<x>> \o after

\* a search that keeps the incident asked about
IsSelf_never(inc_id, incident) == FALSE

\* if inc_id == incident.id: continue
IsSelf(inc_id, incident) == inc_id = incident.id

find_similar_incidents(k, incident, max_results, max_age_days, t) ==
    LET similar_ids == Get(k._incident_by_fingerprint,
                           to_hash(_compute_fingerprint(incident)), <<>>)
        cutoff == t - max_age_days * DaySeconds
        kept == SelectSeq(similar_ids,
                    LAMBDA id : /\ ~IsSelf(id, incident)
                                /\ id \in DOMAIN k.incidents
                                /\ k.incidents[id].occurred_at >= cutoff)
        similar == SortDescending([i \in DOMAIN kept |->
                                      <<k.incidents[kept[i]].occurred_at, k.incidents[kept[i]]>>])
    IN  [i \in 1..Min(max_results, Len(similar)) |-> similar[i][2]]

\* sum(outcomes)
RECURSIVE Successes(_)
Successes(outcomes) ==
    IF outcomes = <<>> THEN 0
    ELSE (IF Head(outcomes) THEN 1 ELSE 0) + Successes(Tail(outcomes))

\* the second loop of get_recommended_actions: an action is added with the
\* pattern's success_rate unless the list has it
RECURSIVE AddPatternActions(_, _, _)
AddPatternActions(recommendations, actions, rate) ==
    IF actions = <<>> THEN recommendations
    ELSE AddPatternActions(
             IF \E i \in DOMAIN recommendations : recommendations[i][2] = Head(actions).value
             THEN recommendations
             ELSE Append(recommendations, <<rate, Head(actions).value>>),
             Tail(actions), rate)

RECURSIVE AddPatterns(_, _, _)
AddPatterns(recommendations, patterns, incident_type) ==
    IF patterns = <<>> THEN recommendations
    ELSE AddPatterns(
             IF In(incident_type, Head(patterns).incident_types)
             THEN AddPatternActions(recommendations, Head(patterns).recommended_actions,
                                    Head(patterns).success_rate)
             ELSE recommendations,
             Tail(patterns), incident_type)

\* get_recommended_actions: (success_rate, action) pairs, best first
get_recommended_actions(k, incident_type) ==
    LET stats == SelectSeq(k._remediation_success_rate,
                     LAMBDA s : s.key[1] = incident_type /\ Len(s.outcomes) >= MinOutcomes)
        empirical == [i \in DOMAIN stats |->
                         <<(Successes(stats[i].outcomes) * RateUnit) \div Len(stats[i].outcomes),
                           stats[i].key[2]>>]
    IN  SortDescending(AddPatterns(empirical, k.patterns, incident_type))

\* the rates move for every pattern that recommends the action
UpdateRates_any_kind(patterns, incident_type, action, success) ==
    [i \in DOMAIN patterns |->
        IF In(action, patterns[i].recommended_actions)
        THEN [patterns[i] EXCEPT !.success_rate =
                 ((IF success THEN RateUnit ELSE 0)
                  + (AlphaDivisor - 1) * patterns[i].success_rate) \div AlphaDivisor]
        ELSE patterns[i]]

\* _update_pattern_success_rates without the save: an exponential moving
\* average with alpha = 0.1
UpdateRates(patterns, incident_type, action, success) ==
    [i \in DOMAIN patterns |->
        IF In(incident_type, patterns[i].incident_types)
           /\ In(action, patterns[i].recommended_actions)
        THEN [patterns[i] EXCEPT !.success_rate =
                 ((IF success THEN RateUnit ELSE 0)
                  + (AlphaDivisor - 1) * patterns[i].success_rate) \div AlphaDivisor]
        ELSE patterns[i]]

\* defaultdict(list)[key].append(success), the keys in insertion order
AppendOutcome(stats, key, success) ==
    IF \E i \in DOMAIN stats : stats[i].key = key
    THEN [i \in DOMAIN stats |->
             IF stats[i].key = key
             THEN [stats[i] EXCEPT !.outcomes = Append(@, success)] ELSE stats[i]]
    ELSE Append(stats, [key |-> key, outcomes |-> <<success>>])

\* KnowledgeBase.record_remediation for a remediation with an incident_id:
\* the statistics, the patterns' rates and the save
learn_remediation(k, incident_id, action, outcome, io) ==
    IF incident_id \notin DOMAIN k.incidents THEN [kb |-> k, raised |-> None, io |-> "none"]
    ELSE LET type == k.incidents[incident_id].type
             success == outcome \in {"success", "partial_success"}
         IN  _save_patterns(
                 [k EXCEPT !._remediation_success_rate = AppendOutcome(@, <<type, action>>, success),
                           !.patterns = UpdateRates(@, type, action, success)], io)

(***************************************************************************)
(* The steps                                                               *)
(***************************************************************************)
\* RemediationEngine.__init__ and SafetyValidator.__init__: everything empty
EngineInit ==
    /\ now = 0
    /\ ticks = 0
    /\ executes = 0
    /\ rems = <<>>
    /\ plans = <<>>
    /\ history = <<>>
    /\ pending_approvals = <<>>
    /\ action_history = <<>>
    /\ recent_targets = <<>>
    /\ kb_remediations = {}
    /\ recorded = <<>>
    /\ last = Call("init")
    /\ kb = KnowledgeBase(EmptyStorage)

\* RemediationEngine(dry_run=...) constructed on its own
Init ==
    /\ EngineInit
    /\ dry_run \in BOOLEAN
    /\ brain = NoBrain

\* KratosBrain(k8s_client, mode): the engine runs dry exactly in observe mode
InitBrain ==
    /\ EngineInit
    /\ \E k8s_client \in BOOLEAN, mode \in KratosMode :
        /\ brain = KratosBrain(k8s_client, mode)
        /\ dry_run = (mode = "observe")

\* time passes between two calls
Tick(advances, max) ==
    /\ ticks < max
    /\ \E d \in advances : now' = now + d
    /\ ticks' = ticks + 1
    /\ last' = Call("tick")
    /\ UNCHANGED <<kb, brain, executes, dry_run, rems, plans, history, pending_approvals,
                   action_history, recent_targets, kb_remediations, recorded>>

\* a caller builds Remediation(...) and RemediationPlan(...) around a
\* validation, as rollback does
BuildPlan(requests, max_rems) ==
    /\ Len(rems) < max_rems
    /\ \E rq \in requests :
        LET td == TargetDict(rq[2])
            v == validate(action_history, recent_targets, rq[1], td, rq[3], now)
            rid == Len(rems) + 1
        IN  /\ action_history' = CleanHistory(action_history, now)
            /\ rems' = Append(rems, Remediation(rq[1], rq[2], rq[3]))
            /\ plans' = Append(plans, RemediationPlan(rid, v))
            /\ last' = [Call("build_plan") EXCEPT !.validation = Some(v), !.target = Some(td),
                                                  !.result = Some(rid)]
            /\ UNCHANGED <<kb, brain, now, ticks, executes, dry_run, history, pending_approvals,
                           recent_targets, kb_remediations, recorded>>

\* plan_remediation(incident, prediction, suggested_action)
PlanRemediation ==
    \E incident \in Incidents, prediction \in Predictions,
       suggested_action \in SuggestedActions :
        /\ last' = [Call("plan_remediation") EXCEPT
                        !.raised = Some(plan_remediation(incident, prediction, suggested_action)),
                        !.target = Some(TargetDict(PlanTarget(incident, prediction))),
                        !.args = Some([incident |-> incident, prediction |-> prediction,
                                       suggested_action |-> suggested_action])]
        /\ UNCHANGED <<kb, brain, now, ticks, executes, dry_run, rems, plans, history, pending_approvals,
                       action_history, recent_targets, kb_remediations, recorded>>

\* the report of a step that called execute(plan, approved_by)
Executed(op, plan, approved_by, res) ==
    [Call(op) EXCEPT !.rid = plan.remediation, !.approved_by = approved_by,
                     !.handler = res.did.handler, !.kb_calls = res.did.kb_calls,
                     !.record_action_calls = res.did.record_action_calls,
                     !.raised = res.did.raised,
                     !.validation = Some(plan.safety_validation),
                     !.result = Some(plan.remediation)]

\* engine.execute(plan, approved_by) on a plan the caller holds
Execute(max_executes) ==
    /\ executes < max_executes
    /\ \E p \in DOMAIN plans, approved_by \in Approvers, h \in HandlerResults :
        LET res == execute(Engine, plans[p], approved_by, h, dry_run, now)
        IN  /\ Install(res.state)
            /\ last' = Executed("execute", plans[p], approved_by, res)
    /\ executes' = executes + 1
    /\ UNCHANGED <<kb, brain, now, ticks, dry_run, plans>>

\* POST /remediation/approve: approve_remediation, for an id that is pending
\* (any other id is answered with 404 and changes nothing)
Approve ==
    /\ executes < MaxExecutes
    /\ \E id \in DOMAIN pending_approvals, approved_by \in ApiApprovers, h \in HandlerResults :
        LET res == execute(Engine, pending_approvals[id], approved_by, h, dry_run, now)
        IN  /\ Install(res.state)
            /\ last' = Executed("approve", pending_approvals[id], approved_by, res)
    /\ executes' = executes + 1
    /\ UNCHANGED <<kb, brain, now, ticks, dry_run, plans>>

\* engine.rollback(remediation_id) for a remediation that is in the history,
\* is successful and has an inverse action (otherwise rollback returns None
\* and changes nothing)
Rollback(max_rems, max_executes) ==
    /\ executes < max_executes
    /\ Len(rems) < max_rems
    /\ \E id \in {history[i] : i \in DOMAIN history}, h \in HandlerResults :
        /\ is_successful(rems[id])
        /\ _get_rollback_action(rems[id].action) # None
        /\  LET original == rems[id]
                 rollback_action == _get_rollback_action(original.action)[1]
                 rollback_params == _get_rollback_parameters(original.parameters)
                 td == TargetDict(original.target_resource)
                 v == validate(action_history, recent_targets, rollback_action, td,
                               rollback_params, now)
                 rid == Len(rems) + 1
                 e0 == [Engine EXCEPT
                          !.rems = Append(@, Remediation(rollback_action,
                                              original.target_resource, rollback_params)),
                          !.action_history = CleanHistory(@, now)]
                 res == execute(e0, RemediationPlan(rid, v), Some("system_rollback"), h,
                                dry_run, now)
             IN  /\ Install([res.state EXCEPT !.rems = LinkRollback(@, id, rid)])
                 /\ last' = [Executed("rollback", RemediationPlan(rid, v),
                                       Some("system_rollback"), res)
                                EXCEPT !.target = Some(td), !.args = Some(id)]
    /\ executes' = executes + 1
    /\ UNCHANGED <<kb, brain, now, ticks, dry_run, plans>>

Next ==
    \/ Tick(EngineAdvances, MaxTicks)
    \/ BuildPlan(Requests, MaxRems)
    \/ Execute(MaxExecutes)
    \/ Approve
    \/ Rollback(MaxRems, MaxExecutes)

Spec == Init /\ [][Next]_vars

(***************************************************************************)
(* The safety validator on its own: validate and record_action called in   *)
(* any order, with the clock advancing by 30 s or 3570 s in between.       *)
(***************************************************************************)
MaxRecords == 2

MaxValidatorTicks == 2

\* the validations asked for: (action, target dictionary, parameters)
ValidateRequests ==
    { <<"scale_memory_up", TargetDict(Some(ApiPod)), ParamsOk>>,
      <<"scale_memory_up", TargetDict(Some(SystemPod)), ParamsTooBig>>,
      <<"delete_pod", TargetDict(Some(DbPod)), NoParams>>,
      <<"cordon_node", TargetDict(None), NoParams>> }

ValidatorCall ==
    \E rq \in ValidateRequests :
        /\ action_history' = CleanHistory(action_history, now)
        /\ last' = [Call("validate") EXCEPT
                        !.validation = Some(validate(action_history, recent_targets,
                                                     rq[1], rq[2], rq[3], now)),
                        !.target = Some(rq[2])]
        /\ UNCHANGED <<kb, brain, now, ticks, executes, dry_run, rems, plans, history,
                       pending_approvals, recent_targets, kb_remediations, recorded>>

RecordAction ==
    /\ Len(recorded) < MaxRecords
    /\ \E rq \in ValidateRequests :
        /\ Install(record_action(Engine, rq[2], now))
        /\ last' = [Call("record_action") EXCEPT !.target = Some(rq[2])]
    /\ UNCHANGED <<kb, brain, now, ticks, executes, dry_run, plans>>

NextSafety ==
    \/ Tick(Advances, MaxValidatorTicks)
    \/ ValidatorCall
    \/ RecordAction

SpecSafety == Init /\ [][NextSafety]_vars

(***************************************************************************)
(* Planning: plan_remediation next to plans built by hand and executed.    *)
(***************************************************************************)
NextPlan ==
    \/ PlanRemediation
    \/ BuildPlan(Requests, MaxRems)
    \/ Execute(MaxExecutes)

SpecPlan == Init /\ [][NextPlan]_vars

(***************************************************************************)
(* Rollback: one remediation built by a caller, executed and rolled back,  *)
(* more than once, with a cooldown or an hour passing in between.          *)
(***************************************************************************)
MaxOriginals == 1

MaxRollbackRems == 3

MaxRollbackExecutes == 3

MaxRollbackTicks == 2

\* a cooldown passes, or the hour of the rate limit
RollbackAdvances == {60, 3600}

\* parameters of a replica scaling, as _check_resource_limits reads them
ParamsReplicas == ("old_replicas" :> 2) @@ ("new_replicas" :> 3) @@ ("max_replicas" :> 10)

RollbackRequests ==
    { <<"scale_memory_up", Some(ApiPod), ParamsOk>>,
      <<"scale_replicas_up", Some(ApiPod), ParamsReplicas>> }

NextRollback ==
    \/ Tick(RollbackAdvances, MaxRollbackTicks)
    \/ BuildPlan(RollbackRequests, MaxOriginals)
    \/ Execute(MaxRollbackExecutes)
    \/ Rollback(MaxRollbackRems, MaxRollbackExecutes)

SpecRollback == Init /\ [][NextRollback]_vars

(***************************************************************************)
(* The Brain: start, stop, the two loops (one step of a loop runs from a   *)
(* wake-up to the next asyncio.sleep: no await in between suspends), the   *)
(* handling of incidents and of plans, and incidents posted over the API.  *)
(***************************************************************************)
MaxStarts == 2

MaxPasses == 2

MaxIncidents == 2

MaxBrainRems == 1

MaxBrainExecutes == 1

\* the incidents a detector reports in one observation pass (the
\* _detect_incidents of the source reports none)
OomApi == [type |-> "oom_kill", resource |-> Some(ApiPod), metrics_snapshot |-> Some(1024)]

OomSystem == [type |-> "oom_kill", resource |-> Some(SystemPod), metrics_snapshot |-> None]

Detected == {<<>>, <<OomApi>>, <<OomSystem, OomApi>>}

\* the plans handed to _handle_remediation_plan
BrainRequests ==
    { <<"scale_memory_up", Some(ApiPod), ParamsOk>>,
      <<"scale_memory_up", Some(SystemPod), ParamsOk>> }

\* the modes in which start creates the prediction loop
PredictModes == {"predict", "recommend", "semi_auto", "auto"}

\* the modes in which _handle_incident asks the engine for a plan
PlanModes == {"recommend", "semi_auto", "auto"}

\* start(): nothing if running, else the flag and the tasks
start(b) ==
    IF b.is_running THEN b
    ELSE [b EXCEPT !.is_running = TRUE,
                   !.starts = @ + 1,
                   !.tasks = @ \o <<[loop |-> "observation", pc |-> "waiting"]>>
                               \o (IF b.mode \in PredictModes
                                   THEN <<[loop |-> "prediction", pc |-> "waiting"]>>
                                   ELSE <<>>)]

\* stop()
stop(b) == [b EXCEPT !.is_running = FALSE]

\* a _handle_incident that asks for the plan before it records the incident
HandleIncidentSteps_plan_first(mode) ==
    IF mode \in PlanModes
    THEN <<"plan", "record_incident", "pattern_induction">>
    ELSE <<"record_incident", "pattern_induction">>

\* the steps _handle_incident takes: record_incident (which ends with
\* _detect_patterns) and, in the planning modes, plan_remediation
HandleIncidentSteps(mode) ==
    IF mode \in PlanModes
    THEN <<"record_incident", "pattern_induction", "plan">>
    ELSE <<"record_incident", "pattern_induction">>

\* knowledge_base.record_incident(incident), with the steps taken for it;
\* handled tells whether _handle_incident made the call, planned is the
\* validation a plan for the incident would carry
RecordIncident(b, incident, taken, handled, planned) ==
    LET id == Len(b.incidents) + 1
    IN  [b EXCEPT !.incidents = Append(@, [incident |-> incident, handled |-> handled,
                                           planned |-> planned]),
                  !.steps = @ \o [i \in DOMAIN taken |-> [incident |-> id, step |-> taken[i]]]]

\* _handle_incident(incident): the Brain after it and the exception it raised.
\* plan_remediation raises for every incident, so the line that hands the
\* plan to _handle_remediation_plan is never reached
_handle_incident(b, e, incident, t) ==
    [brain |-> RecordIncident(b, incident, HandleIncidentSteps(b.mode), TRUE,
                              PlannedValidation(e.action_history, e.recent_targets,
                                                Some(incident), None, None, t)),
     raised |-> IF b.mode \in PlanModes
                THEN Some(plan_remediation(Some(incident), None, None))
                ELSE None]

\* _observe_cluster: the incidents are handled one after the other; an
\* exception ends the pass
RECURSIVE HandleAll(_, _, _, _)
HandleAll(b, e, incidents, t) ==
    IF incidents = <<>> THEN [brain |-> b, raised |-> None]
    ELSE LET one == _handle_incident(b, e, Head(incidents), t)
         IN  IF one.raised # None THEN one
             ELSE HandleAll(one.brain, e, Tail(incidents), t)

_observe_cluster(b, e, incidents, t) ==
    IF ~b.k8s_client THEN [brain |-> b, raised |-> None]
    ELSE HandleAll(b, e, incidents, t)

\* a loop that never tests is_running
LoopRuns_forever(b) == TRUE

\* while self.is_running
LoopRuns(b) == b.is_running

\* should_execute of _handle_remediation_plan
should_execute(mode, validation) ==
    mode = "auto" /\ validation.safe /\ ~validation.requires_approval

\* what the Brain's steps leave alone in the engine
EngineUnchanged ==
    UNCHANGED <<now, ticks, executes, dry_run, rems, plans, history, pending_approvals,
                action_history, recent_targets, kb_remediations, recorded, kb>>

\* await brain.start() on a Brain that is not running
Start ==
    /\ ~brain.is_running
    /\ brain.starts < MaxStarts
    /\ brain' = start(brain)
    /\ last' = Call("start")
    /\ EngineUnchanged

\* await brain.stop() on a running Brain
Stop ==
    /\ brain.is_running
    /\ brain' = stop(brain)
    /\ last' = Call("stop")
    /\ EngineUnchanged

\* one wake-up of an observation loop: leave the loop, or run a pass, go to
\* sleep (for the interval, or for 5 s after an exception) and wait again
ObservationLoop ==
    /\ \E t \in DOMAIN brain.tasks :
        /\ brain.tasks[t].loop = "observation"
        /\ brain.tasks[t].pc = "waiting"
        /\ IF ~LoopRuns(brain)
           THEN /\ brain' = [brain EXCEPT !.tasks[t].pc = "done"]
                /\ last' = [Call("observation_loop") EXCEPT !.args = Some(t),
                                                            !.result = Some("exited")]
           ELSE /\ brain.passes < MaxPasses
                /\ \E incidents \in Detected :
                    LET pass == _observe_cluster(brain, Engine, incidents, now)
                    IN  /\ brain' = [pass.brain EXCEPT !.passes = @ + 1]
                        /\ last' = [Call("observation_loop") EXCEPT
                                        !.args = Some(t), !.result = Some("slept"),
                                        !.raised = pass.raised]
    /\ EngineUnchanged

\* one wake-up of a prediction loop; _run_predictions does nothing
PredictionLoop ==
    /\ \E t \in DOMAIN brain.tasks :
        /\ brain.tasks[t].loop = "prediction"
        /\ brain.tasks[t].pc = "waiting"
        /\ IF ~LoopRuns(brain)
           THEN /\ brain' = [brain EXCEPT !.tasks[t].pc = "done"]
                /\ last' = [Call("prediction_loop") EXCEPT !.args = Some(t),
                                                           !.result = Some("exited")]
           ELSE /\ brain.passes < MaxPasses
                /\ brain' = [brain EXCEPT !.passes = @ + 1]
                /\ last' = [Call("prediction_loop") EXCEPT !.args = Some(t),
                                                           !.result = Some("slept")]
    /\ EngineUnchanged

\* await brain._handle_remediation_plan(plan) for a plan the caller holds
HandleRemediationPlan ==
    /\ executes < MaxBrainExecutes
    /\ \E p \in DOMAIN plans, h \in HandlerResults :
        LET go == should_execute(brain.mode, plans[p].safety_validation)
            res == IF go
                   THEN execute(Engine, plans[p], Some("auto"), h, dry_run, now)
                   ELSE [state |-> Engine,
                         did |-> [handler |-> "not_called", kb_calls |-> 0,
                                  record_action_calls |-> 0, raised |-> None]]
        IN  /\ Install(res.state)
            /\ last' = [Executed("handle_plan", plans[p],
                                 IF go THEN Some("auto") ELSE None, res)
                           EXCEPT !.result = IF go THEN Some(plans[p].remediation) ELSE None]
    /\ executes' = executes + 1
    /\ UNCHANGED <<kb, brain, now, ticks, dry_run, plans>>

\* POST /incidents: brain.knowledge_base.record_incident(inc)
ApiRecordIncident ==
    /\ Len(brain.incidents) < MaxIncidents
    /\ brain' = RecordIncident(brain, OomApi, <<"record_incident", "pattern_induction">>, FALSE,
                               PlannedValidation(action_history, recent_targets,
                                                 Some(OomApi), None, None, now))
    /\ last' = Call("api_record_incident")
    /\ EngineUnchanged

\* the Brain's tasks and the API next to them
NextLoops ==
    \/ Start
    \/ Stop
    \/ ObservationLoop
    \/ PredictionLoop
    \/ ApiRecordIncident

SpecLoops == InitBrain /\ [][NextLoops]_vars

\* the event loop runs every task that is ready: a loop that waits wakes up
SpecLoopsLive == SpecLoops /\ WF_vars(ObservationLoop) /\ WF_vars(PredictionLoop)

\* the same with plans handed to the Brain
NextBrain ==
    \/ Start
    \/ Stop
    \/ ObservationLoop
    \/ PredictionLoop
    \/ ApiRecordIncident
    \/ BuildPlan(BrainRequests, MaxBrainRems)
    \/ HandleRemediationPlan

SpecBrain == InitBrain /\ [][NextBrain]_vars

(***************************************************************************)
(* The knowledge base on its own: incidents are recorded, similar ones are *)
(* searched, outcomes are learned, and a restart builds a new              *)
(* KnowledgeBase on the storage directory of the old one.                  *)
(***************************************************************************)
MaxKbIncidents == 4

MaxKbTicks == 1

\* the clock advances by a day or by most of the 90 days of max_age_days
KbAdvances == {86400, 7689600}

\* the resource of test_find_similar_incidents
ApiServer123 ==
    [kind |-> "Pod", namespace |-> "default", name |-> "api-server-123",
     labels |-> ("app" :> "api")]

\* the resource of test_pattern_detection
TestPod == [kind |-> "Pod", namespace |-> "default", name |-> "test-pod", labels |-> <<>>]

\* ResourceMetrics: the memory limit in MiB
Metrics1GiB == Some(1024)

\* the incidents callers record: (type, resource, message, metrics_snapshot)
KbInputs ==
    { <<"oom_kill", None, MsgTestIncident, None>>,
      <<"crash_loop", Some(ApiServer123), MsgCrashLoopBackOff, Metrics1GiB>> }

\* Incident(type=..., resource=..., message=..., metrics_snapshot=...) with a
\* fresh id; occurred_at and detected_at default to utcnow()
NewIncident(k, input, t) ==
    [Incident(Cardinality(DOMAIN k.incidents) + 1, input[1], input[2], input[3], t)
        EXCEPT !.metrics_snapshot = input[4]]

\* the engine, its validator and its registry are not touched
EngineUnchangedButClock ==
    UNCHANGED <<executes, dry_run, rems, plans, history, pending_approvals,
                action_history, recent_targets, kb_remediations, recorded>>

\* a knowledge base on an empty storage directory, and an engine beside it
InitKB ==
    /\ EngineInit
    /\ dry_run = FALSE
    /\ brain = NoBrain

\* kb.record_incident(incident)
KbRecordIncident(inputs, ios, max) ==
    /\ Cardinality(DOMAIN kb.incidents) < max
    /\ \E input \in inputs, io \in ios :
        LET incident == NewIncident(kb, input, now)
            r == record_incident(kb, incident, now, io)
        IN  /\ kb' = r.kb
            /\ last' = [Call("record_incident") EXCEPT !.args = Some(incident),
                                                       !.raised = r.raised,
                                                       !.result = r.result,
                                                       !.io = r.io]
    /\ UNCHANGED <<brain, now, ticks>>
    /\ EngineUnchangedButClock

\* the process ends and a new KnowledgeBase is built on the same directory
KbRestart ==
    /\ kb' = KnowledgeBase(kb.storage)
    /\ last' = Call("KnowledgeBase")
    /\ UNCHANGED <<brain, now, ticks>>
    /\ EngineUnchangedButClock

(***************************************************************************)
(* Storage: record_incident, with and without a failing write of           *)
(* patterns.json, and restarts.                                            *)
(***************************************************************************)
NextKB ==
    \/ KbRecordIncident(KbInputs, IoResults, MaxKbIncidents)
    \/ KbRestart
    \/ Tick(KbAdvances, MaxKbTicks)

SpecKB == InitKB /\ [][NextKB]_vars

(***************************************************************************)
(* Similarity: incidents of one kind on one resource, and the search.      *)
(***************************************************************************)
MaxSimilarIncidents == 2

MaxSimilarTicks == 2

SimilarInputs ==
    { <<"oom_kill", Some(ApiServer123), m, None>> : m \in {MsgOomKill0, MsgOomKillTest} }

\* max_results: the default and a small one
MaxResultsChoices == {1, 10}

\* max_age_days: the default and a small one
MaxAgeChoices == {1, 90}

\* kb.find_similar_incidents(incident, max_results, max_age_days) for an
\* incident of the knowledge base or a new one
KbFindSimilar(stored, inputs, results, ages) ==
    /\ \E incident \in {kb.incidents[id] : id \in stored}
                           \cup {NewIncident(kb, input, now) : input \in inputs},
          max_results \in results, max_age_days \in ages :
        last' = [Call("find_similar_incidents")
                    EXCEPT !.args = Some([incident |-> incident, max_results |-> max_results,
                                          max_age_days |-> max_age_days]),
                           !.result = Some(find_similar_incidents(kb, incident, max_results,
                                                                  max_age_days, now))]
    /\ UNCHANGED <<kb, brain, now, ticks>>
    /\ EngineUnchangedButClock

NextSimilar ==
    \/ KbRecordIncident(SimilarInputs, {"ok"}, MaxSimilarIncidents)
    \/ KbFindSimilar(DOMAIN kb.incidents, SimilarInputs, MaxResultsChoices, MaxAgeChoices)
    \/ Tick(KbAdvances, MaxSimilarTicks)

SpecSimilar == InitKB /\ [][NextSimilar]_vars

(***************************************************************************)
(* test_find_similar_incidents: incidents "OOM kill 0", "OOM kill 1", ...  *)
(* on one resource, and the search for "OOM kill test" with the default    *)
(* max_results and max_age_days.                                           *)
(***************************************************************************)
MaxTestIncidents == 5

\* the incidents of the test: f"OOM kill {i}" for i in range(5)
OomKillInputs ==
    { <<"oom_kill", Some(ApiServer123), m, None>> :
        m \in {MsgOomKill0, MsgOomKill1, MsgOomKill2, MsgOomKill3, MsgOomKill4} }

OomKillTest == <<"oom_kill", Some(ApiServer123), MsgOomKillTest, None>>

NextSimilarTest ==
    \/ KbRecordIncident(OomKillInputs, {"ok"}, MaxTestIncidents)
    \/ KbFindSimilar({}, {OomKillTest}, {10}, {90})

SpecSimilarTest == InitKB /\ [][NextSimilarTest]_vars

(***************************************************************************)
(* Pattern induction: incidents of two kinds on one resource, and          *)
(* restarts.                                                               *)
(***************************************************************************)
MaxPatternIncidents == 5

PatternInputs ==
    { <<"crash_loop", Some(TestPod), MsgCrashLoopBackOff, None>>,
      <<"node_memory_pressure", Some(TestPod), MsgMemoryPressure, None>> }

NextPattern ==
    \/ KbRecordIncident(PatternInputs, {"ok"}, MaxPatternIncidents)
    \/ KbRestart

SpecPattern == InitKB /\ [][NextPattern]_vars

(***************************************************************************)
(* Recommendations: incidents, the outcomes of remediations made for them, *)
(* and the ranking.                                                        *)
(***************************************************************************)
MaxRecommendIncidents == 3

MaxOutcomes == 4

RecommendInputs ==
    { <<"resource_exhaustion", Some(TestPod), MsgCpu, None>> }

\* the actions of the remediations whose outcome is recorded
LearnedActions == {"scale_cpu_up", "scale_replicas_up", "restart_pod"}

LearnedOutcomes == {"success", "failed"}

\* how many outcomes the statistics hold
RECURSIVE OutcomeCount(_)
OutcomeCount(stats) ==
    IF stats = <<>> THEN 0 ELSE Len(Head(stats).outcomes) + OutcomeCount(Tail(stats))

\* kb.record_remediation(Remediation(incident_id=..., action=..., outcome=...))
KbRecordRemediation(max) ==
    /\ OutcomeCount(kb._remediation_success_rate) < max
    /\ \E incident_id \in DOMAIN kb.incidents, action \in LearnedActions,
          outcome \in LearnedOutcomes :
        LET r == learn_remediation(kb, incident_id, action, outcome, "ok")
        IN  /\ kb' = r.kb
            /\ last' = [Call("record_remediation")
                           EXCEPT !.args = Some([incident_id |-> incident_id,
                                                 action |-> action, outcome |-> outcome]),
                                  !.raised = r.raised, !.io = r.io]
    /\ UNCHANGED <<brain, now, ticks>>
    /\ EngineUnchangedButClock

\* kb.get_recommended_actions(incident_type)
KbGetRecommendedActions(types) ==
    /\ \E incident_type \in types :
        last' = [Call("get_recommended_actions")
                    EXCEPT !.args = Some(incident_type),
                           !.result = Some(get_recommended_actions(kb, incident_type))]
    /\ UNCHANGED <<kb, brain, now, ticks>>
    /\ EngineUnchangedButClock

NextRecommend ==
    \/ KbRecordIncident(RecommendInputs, {"ok"}, MaxRecommendIncidents)
    \/ KbRecordRemediation(MaxOutcomes)
    \/ KbGetRecommendedActions({"resource_exhaustion"})

SpecRecommend == InitKB /\ [][NextRecommend]_vars

(***************************************************************************)
(* Normalization on its own: _normalize_error_message applied to every     *)
(* short message over a small alphabet and to three longer ones.           *)
(***************************************************************************)
MaxMessageLength == 4

\* an upper-case letter, a lower-case letter, a digit and the hyphen
MessageAlphabet == {"A", "a", "1", "-"}

\* "pod-ABCDE"
MsgUpperSuffix == <<"p", "o", "d", "-", "A", "B", "C", "D", "E">>

\* "id ABCDEF12-ABCD-ABCD-ABCD-ABCDEF123456"
MsgUpperUuid == <<"i", "d", " ", "A", "B", "C", "D", "E", "F", "1", "2", "-", "A", "B", "C", "D", "-", "A", "B", "C", "D", "-", "A", "B", "C", "D", "-", "A", "B", "C", "D", "E", "F", "1", "2", "3", "4", "5", "6">>

\* "ERR500 code 12345"
MsgErrorCode == <<"E", "R", "R", "5", "0", "0", " ", "c", "o", "d", "e", " ", "1", "2", "3", "4", "5">>

NormalizeInputs ==
    UNION {[1..n -> MessageAlphabet] : n \in 0..MaxMessageLength}
        \cup {MsgUpperSuffix, MsgUpperUuid, MsgErrorCode}

\* self._normalize_error_message(message)
Normalize ==
    /\ \E message \in NormalizeInputs :
        last' = [Call("_normalize_error_message")
                    EXCEPT !.args = Some(message),
                           !.result = Some(_normalize_error_message(message))]
    /\ UNCHANGED <<kb, brain, now, ticks>>
    /\ EngineUnchangedButClock

NextNormalize == Normalize

SpecNormalize == InitKB /\ [][NextNormalize]_vars

(***************************************************************************)
(* Handlers that do not return: execute calls the handler on its own       *)
(* thread of control and goes on when the handler returns.  While a        *)
(* handler runs nothing else of the engine runs; the clock goes on.        *)
(***************************************************************************)
MaxTimeoutRems == 1

MaxTimeoutExecutes == 1

MaxTimeoutTicks == 3

TimeoutAdvances == {30, 60}

\* _estimate_duration: the durations table and its default, seconds
_estimate_duration(action) ==
    CASE action = "notify_only" -> 1
      [] action \in {"scale_memory_up", "scale_cpu_up"} -> 60
      [] action = "scale_replicas_up" -> 120
      [] action = "restart_pod" -> 30
      [] action = "rollback_deployment" -> 180
      [] action = "drain_node" -> 300
      [] OTHER -> 60

TimeoutRequests ==
    { <<"scale_memory_up", Some(ApiPod), ParamsOk>>,
      <<"restart_pod", Some(ApiPod), NoParams>>,
      <<"notify_only", None, NoParams>> }

\* execute is inside handler(remediation): executed_at is set, completed_at
\* is not
InHandler(r) == r.executed_at # None /\ r.completed_at = None

\* engine.execute(plan, approved_by) with a handler that does not return:
\* the gates are passed, executed_at is set, the handler is called
ExecuteHangs(max_executes) ==
    /\ executes < max_executes
    /\ \E p \in DOMAIN plans, approved_by \in Approvers :
        LET plan == plans[p]
            rid == plan.remediation
        IN  /\ ~BlockedBySafety(plan)
            /\ ~NeedsApproval(plan, approved_by)
            /\ ~DryRunBranch(dry_run)
            /\ rems[rid].action \in action_handlers
            /\ rems' = [rems EXCEPT ![rid].approved_by =
                                        IF Truthy(approved_by) THEN approved_by ELSE @,
                                    ![rid].executed_at = Some(now)]
            /\ last' = [Call("execute") EXCEPT !.rid = rid, !.approved_by = approved_by,
                                               !.handler = "hang"]
    /\ executes' = executes + 1
    /\ UNCHANGED <<kb, brain, now, ticks, dry_run, plans, history, pending_approvals,
                   action_history, recent_targets, kb_remediations, recorded>>

NextTimeout ==
    \/ /\ \A rid \in DOMAIN rems : ~InHandler(rems[rid])
       /\ \/ BuildPlan(TimeoutRequests, MaxTimeoutRems)
          \/ Execute(MaxTimeoutExecutes)
          \/ ExecuteHangs(MaxTimeoutExecutes)
    \/ Tick(TimeoutAdvances, MaxTimeoutTicks)

SpecTimeout == Init /\ [][NextTimeout]_vars

(***************************************************************************)
(* Predictions asked of a Brain: brain.predict_for_resource(resource,      *)
(* metrics), as examples/basic_usage.py and POST /predict call it.         *)
(***************************************************************************)
MaxPredictCalls == 3

\* the resource of examples/basic_usage.py
ApiServerAbc123 ==
    [kind |-> "Pod", namespace |-> "production", name |-> "api-server-abc123",
     labels |-> ("app" :> "api-server" @@ "tier" :> "backend")]

\* cpu_usage_cores=0.8 of 1.0, memory 900 MiB of 1 GiB (examples/basic_usage.py)
Scenario1Metrics == ResourceMetrics(800, 1000, 900, 1024)

\* metrics at 97.6 % of the memory limit, at 95 % of the CPU limit, and of a
\* container without limits
MemoryBreachMetrics == ResourceMetrics(500, 1000, 1000, 1024)

CpuBreachMetrics == ResourceMetrics(950, 1000, 512, 1024)

NoLimitMetrics == ResourceMetrics(800, 0, 900, 0)

PredictMetrics == {Scenario1Metrics, MemoryBreachMetrics, CpuBreachMetrics, NoLimitMetrics}

\* brain.predict_for_resource(resource, metrics)
PredictForResource(resources, metrics_choices, max) ==
    /\ Len(brain.failure_predictor.series) < max
    /\ Unscored(brain.failure_predictor)
    /\ Unsmoothed(brain.failure_predictor)
    /\ \E resource \in resources, metrics \in metrics_choices :
        LET res == predict_for_resource(brain, resource, metrics)
        IN  /\ brain' = res.brain
            /\ last' = [Call("predict_for_resource") EXCEPT
                            !.args = <<resource, metrics>>, !.result = res.result]
    /\ EngineUnchanged

NextPredict == PredictForResource({ApiServerAbc123}, PredictMetrics, MaxPredictCalls)

SpecPredict == InitBrain /\ [][NextPredict]_vars

(***************************************************************************)
(* The safety validator called with a cluster state: validate(action,      *)
(* target_resource, parameters, cluster_state), next to record_action and  *)
(* the clock.                                                              *)
(***************************************************************************)
\* a database Pod of a protected namespace
SystemDbPod ==
    [kind |-> "Pod", namespace |-> "kube-system", name |-> "db", labels |-> ("app" :> "Database")]

\* the validations asked for: (action, target dictionary, parameters)
BlastRequests ==
    { <<"delete_pod", TargetDict(Some(SystemPod)), NoParams>>,
      <<"scale_memory_up", TargetDict(Some(SystemDbPod)), ParamsOk>>,
      <<"cordon_node", TargetDict(Some(SystemDbPod)), NoParams>>,
      <<"scale_memory_up", TargetDict(Some(ApiPod)), ParamsOk>>,
      <<"cordon_node", TargetDict(Some(ApiPod)), NoParams>> }

ClusterState(total_pods, total_nodes) ==
    [total_pods |-> total_pods, total_nodes |-> total_nodes]

\* no cluster state, and clusters in which one node holds a third, a fifth
\* and a twentieth of the pods, and a cluster of two pods
ClusterStates ==
    {None, Some(ClusterState(100, 3)), Some(ClusterState(100, 5)),
     Some(ClusterState(100, 20)), Some(ClusterState(2, 5))}

ValidateClusterState(requests, cluster_states) ==
    \E rq \in requests, cluster_state \in cluster_states :
        /\ action_history' = CleanHistory(action_history, now)
        /\ last' = [Call("validate") EXCEPT
                        !.validation = Some(validate_cluster_state(
                                                action_history, recent_targets,
                                                rq[1], rq[2], rq[3], cluster_state, now)),
                        !.target = Some(rq[2]),
                        !.args = <<rq[1], rq[2], rq[3], cluster_state>>]
        /\ UNCHANGED <<kb, brain, now, ticks, executes, dry_run, rems, plans, history,
                       pending_approvals, recent_targets, kb_remediations, recorded>>

NextBlast ==
    \/ Tick(Advances, MaxValidatorTicks)
    \/ ValidateClusterState(BlastRequests, ClusterStates)
    \/ RecordAction

SpecBlast == Init /\ [][NextBlast]_vars

(***************************************************************************)
(* The choice of an action for an incident: the knowledge base's best      *)
(* recommendation, or the table of defaults.                               *)
(***************************************************************************)
\* the default_actions table of _select_action_for_incident and its default
default_actions(incident_type) ==
    CASE incident_type = "oom_kill" -> "scale_memory_up"
      [] incident_type \in {"crash_loop", "readiness_fail", "liveness_fail"} -> "restart_pod"
      [] incident_type = "node_not_ready" -> "cordon_node"
      [] incident_type = "node_memory_pressure" -> "notify_only"
      [] incident_type = "resource_exhaustion" -> "scale_replicas_up"
      [] incident_type = "eviction" -> "scale_memory_up"
      [] incident_type = "deployment_fail" -> "rollback_deployment"
      [] OTHER -> "notify_only"

\* the success rate a recommendation must exceed, 0.6
min_recommended_rate == (6 * RateUnit) \div 10

\* the engine always takes the best recommendation
_select_action_for_incident_any_rate(knowledge_base, incident_type) ==
    IF knowledge_base # None
       /\ get_recommended_actions(knowledge_base[1], incident_type) # <<>>
    THEN get_recommended_actions(knowledge_base[1], incident_type)[1][2]
    ELSE default_actions(incident_type)

\* _select_action_for_incident of an engine whose knowledge_base is None or
\* a KnowledgeBase
_select_action_for_incident(knowledge_base, incident_type) ==
    IF /\ knowledge_base # None
       /\ get_recommended_actions(knowledge_base[1], incident_type) # <<>>
       /\ get_recommended_actions(knowledge_base[1], incident_type)[1][1]
              > min_recommended_rate
    THEN get_recommended_actions(knowledge_base[1], incident_type)[1][2]
    ELSE default_actions(incident_type)

\* the kinds of the incidents an action is chosen for: those of the table and
\* two that are not in it
SelectTypes ==
    {"oom_kill", "crash_loop", "readiness_fail", "liveness_fail", "node_not_ready",
     "node_memory_pressure", "resource_exhaustion", "eviction", "deployment_fail",
     "image_pull_fail", "unknown"}

\* engine._select_action_for_incident(incident) of an engine built with the
\* knowledge base or with none
SelectActionForIncident(types) ==
    /\ \E incident_type \in types, knowledge_base \in {None, Some(kb)} :
        last' = [Call("_select_action_for_incident")
                    EXCEPT !.args = Some([type |-> incident_type,
                                          knowledge_base |-> knowledge_base # None]),
                           !.result = Some(_select_action_for_incident(knowledge_base,
                                                                       incident_type))]
    /\ UNCHANGED <<kb, brain, now, ticks>>
    /\ EngineUnchangedButClock

MaxSelectIncidents == 3

MaxSelectOutcomes == 2

NextSelect ==
    \/ KbRecordIncident(RecommendInputs, {"ok"}, MaxSelectIncidents)
    \/ KbRecordRemediation(MaxSelectOutcomes)
    \/ SelectActionForIncident(SelectTypes)

SpecSelect == InitKB /\ [][NextSelect]_vars

(***************************************************************************)
(* Pattern success rates: incidents of two kinds on one resource and the   *)
(* outcomes of remediations made for them.                                 *)
(***************************************************************************)
MaxRateIncidents == 4

MaxRateOutcomes == 2

NextRates ==
    \/ KbRecordIncident(PatternInputs, {"ok"}, MaxRateIncidents)
    \/ KbRecordRemediation(MaxRateOutcomes)

SpecRates == InitKB /\ [][NextRates]_vars

(***************************************************************************)
(* The ensemble with scored windows: predict_for_resource called often     *)
(* enough for the anomaly detector to score, with constant usages and      *)
(* changing limits.                                                        *)
(***************************************************************************)
MaxEnsembleCalls == 11

\* metrics at 91 % of the CPU limit, and the same usage with twice the limit
Cpu91Metrics == ResourceMetrics(910, 1000, 512, 1024)

Cpu45Metrics == ResourceMetrics(910, 2000, 512, 1024)

EnsembleMetrics == {Cpu91Metrics, Cpu45Metrics}

\* brain.predict_for_resource(resource, metrics), with what the sub-models
\* returned
PredictEnsemble(resources, metrics_choices, max) ==
    /\ Len(brain.failure_predictor.series) < max
    /\ \E resource \in resources, metrics \in metrics_choices :
        /\ Forecastable(Append(brain.failure_predictor.series, metrics))
        /\ LET res == predict_for_resource(brain, resource, metrics)
           IN  /\ brain' = res.brain
               /\ last' = [Call("predict_for_resource") EXCEPT
                               !.args = <<resource, metrics,
                                          predict(brain.failure_predictor, metrics).signals>>,
                               !.result = res.result]
    /\ EngineUnchanged

NextEnsemble == PredictEnsemble({ApiServerAbc123}, EnsembleMetrics, MaxEnsembleCalls)

SpecEnsemble == InitBrain /\ [][NextEnsemble]_vars

(***************************************************************************)
(* An engine built with a knowledge base: execute hands the remediation to *)
(* KnowledgeBase.record_remediation, which learns from it and saves the    *)
(* patterns.                                                               *)
(***************************************************************************)
MaxLearnIncidents == 3

MaxLearnRems == 2

MaxLearnExecutes == 2

LearnInputs == { <<"crash_loop", Some(TestPod), MsgCrashLoopBackOff, None>> }

\* an action with a handler, which the crash_loop pattern recommends, and one
\* without a handler
LearnActions == {"restart_pod", "pause_deployment"}

\* execute(plan, approved_by) of an engine whose knowledge_base is k: the
\* try body calls knowledge_base.record_remediation between history.append
\* and record_action; what it raises is caught by the except branch, which
\* sets FAILED, str(e) and completed_at
execute_learn(e, k, plan, approved_by, h, dry, t, io) ==
    LET res == CHOOSE r \in {execute(e, plan, approved_by, h, dry, t)} : TRUE
        rid == plan.remediation
        r == res.state.rems[rid]
        learned ==
            CHOOSE l \in {IF r.incident_id # None
                          THEN learn_remediation(k, r.incident_id[1], r.action, r.outcome, io)
                          ELSE [kb |-> k, raised |-> None, io |-> "none"]} : TRUE
    IN  IF res.did.kb_calls = 0 THEN [state |-> res.state, kb |-> k, did |-> res.did]
        ELSE IF learned.raised = None
        THEN [state |-> res.state, kb |-> learned.kb, did |-> res.did]
        ELSE [state |-> [res.state EXCEPT
                            !.rems[rid].outcome = "failed",
                            !.rems[rid].error_message = Some(<<learned.raised[1]>>),
                            !.action_history = e.action_history,
                            !.recent_targets = e.recent_targets,
                            !.recorded = e.recorded],
              kb |-> learned.kb,
              did |-> [res.did EXCEPT !.record_action_calls = 0,
                                      !.raised = learned.raised]]

\* the engine and a knowledge base on an empty storage directory
InitLearn ==
    /\ EngineInit
    /\ dry_run \in BOOLEAN
    /\ brain = NoBrain

\* a caller builds Remediation(incident_id=..., action=..., target_resource=
\* incident.resource) and a RemediationPlan around its validation
BuildLearnPlan(actions, max_rems) ==
    /\ Len(rems) < max_rems
    /\ \E incident_id \in DOMAIN kb.incidents, action \in actions :
        LET target == kb.incidents[incident_id].resource
            td == TargetDict(target)
            v == validate(action_history, recent_targets, action, td, NoParams, now)
            rid == Len(rems) + 1
        IN  /\ action_history' = CleanHistory(action_history, now)
            /\ rems' = Append(rems, Remediation(action, target, NoParams)
                                        @@ [incident_id |-> Some(incident_id)])
            /\ plans' = Append(plans, RemediationPlan(rid, v))
            /\ last' = [Call("build_plan") EXCEPT !.validation = Some(v), !.target = Some(td),
                                                  !.result = Some(rid)]
    /\ UNCHANGED <<kb, brain, now, ticks, executes, dry_run, history, pending_approvals,
                   recent_targets, kb_remediations, recorded>>

\* engine.execute(plan) with a handler that returns; the write of
\* patterns.json succeeds or fails
ExecuteLearn(max_executes) ==
    /\ executes < max_executes
    /\ \E p \in DOMAIN plans, h \in {"true", "false"}, io \in {"ok", "error"} :
        LET res == execute_learn(Engine, kb, plans[p], None, h, dry_run, now, io)
        IN  /\ Install(res.state)
            /\ kb' = res.kb
            /\ last' = [Executed("execute", plans[p], None, res) EXCEPT !.io = io]
    /\ executes' = executes + 1
    /\ UNCHANGED <<brain, now, ticks, dry_run, plans>>

NextLearn ==
    \/ KbRecordIncident(LearnInputs, {"ok"}, MaxLearnIncidents)
    \/ BuildLearnPlan(LearnActions, MaxLearnRems)
    \/ ExecuteLearn(MaxLearnExecutes)

SpecLearn == InitLearn /\ [][NextLearn]_vars

(***************************************************************************)
(* Properties                                                              *)
(***************************************************************************)
\* the steps that call execute(plan, approved_by)
ExecOps == {"execute", "approve", "rollback"}

TerminalOutcomes == {"success", "partial_success", "failed", "dry_run", "skipped", "rolled_back"}

\* the validation of the plan the last step executed
LastValidation == last.validation[1]

\* the last step called execute and the plan got past both gates
PassedGates ==
    /\ last.op \in ExecOps
    /\ LastValidation.safe
    /\ ~(LastValidation.requires_approval /\ ~Truthy(last.approved_by))

\* C1: an execute call for a safe plan that requires approval, made without an
\* approver, invokes no handler, leaves the remediation PENDING_APPROVAL, does
\* not set executed_at (unset before, unset after) and stores the plan in
\* pending_approvals under the remediation id.
C1_PendingWithoutApprover ==
    [][(/\ last'.op \in ExecOps
        /\ LastValidation'.safe
        /\ LastValidation'.requires_approval
        /\ ~Truthy(last'.approved_by))
       => /\ last'.handler = "not_called"
          /\ rems'[last'.rid].outcome = "pending_approval"
          /\ last'.rid \in DOMAIN rems
          /\ rems'[last'.rid].executed_at = rems[last'.rid].executed_at
          /\ last'.rid \in DOMAIN pending_approvals'
          /\ pending_approvals'[last'.rid].remediation = last'.rid
          /\ pending_approvals'[last'.rid].safety_validation = LastValidation'
          /\ history' = history]_vars

\* an approval-gated plan was executed without an approver and waits
C1_Witness ==
    /\ last.op \in ExecOps
    /\ LastValidation.safe
    /\ LastValidation.requires_approval
    /\ ~Truthy(last.approved_by)
    /\ last.approved_by = Some("")
    /\ rems[last.rid].outcome = "pending_approval"
    /\ rems[last.rid].executed_at = None
    /\ last.rid \in DOMAIN pending_approvals

\* C2: an execute call for a plan whose validation is not safe, whatever the
\* approver, leaves the remediation SKIPPED with the validation's summary as
\* error message, invokes no handler and changes neither the history, the
\* knowledge base's remediations, the pending registry nor the validator's
\* action history and cooldown anchors.
C2_UnsafeIsSkipped ==
    [][(last'.op \in ExecOps /\ ~LastValidation'.safe)
       => /\ rems'[last'.rid].outcome = "skipped"
          /\ rems'[last'.rid].error_message = Some(get_summary(LastValidation'))
          /\ Head(rems'[last'.rid].error_message[1]) = "BLOCKED by: "
          /\ last'.handler = "not_called"
          /\ history' = history
          /\ kb_remediations' = kb_remediations
          /\ pending_approvals' = pending_approvals
          /\ action_history' = IF last'.op = "rollback"  \* rollback validates first
                               THEN CleanHistory(action_history, now)
                               ELSE action_history
          /\ recent_targets' = recent_targets
          /\ recorded' = recorded]_vars

\* an unsafe plan was executed with an approver and was skipped
C2_Witness ==
    /\ last.op \in ExecOps
    /\ ~LastValidation.safe
    /\ Truthy(last.approved_by)
    /\ rems[last.rid].outcome = "skipped"
    /\ rems[last.rid].error_message = Some(<<"BLOCKED by: ", "cooldown">>)

\* the checks of a validation that carry the given name
ChecksNamed(v, name) == SelectSeq(v.checks, LAMBDA c : c.name = name)

\* the record_action calls made less than an hour ago
RecordedLastHour == {i \in DOMAIN recorded : now - recorded[i].at < HourSeconds}

\* the record_action calls made for the target (kind, namespace, name)
RecordedFor(td) ==
    {i \in DOMAIN recorded : /\ recorded[i].kind = td.kind
                             /\ recorded[i].namespace = td.namespace
                             /\ recorded[i].name = td.name}

\* the last record_action call for the target was less than cooldown_seconds ago
InCooldown(td) ==
    /\ RecordedFor(td) # {}
    /\ now - recorded[CHOOSE i \in RecordedFor(td) : \A j \in RecordedFor(td) : j <= i].at
           < cooldown_seconds

\* C3: when max_actions_per_hour or more record_action calls were made less
\* than 3600 s ago, validate (any action, any target) returns safe = false
\* with a rate_limit check that is failed and blocking; when fewer were, the
\* rate_limit check passes.
C3_RateLimit ==
    last.op = "validate" =>
        LET rate == ChecksNamed(LastValidation, "rate_limit")
        IN  /\ Len(rate) = 1
            /\ Cardinality(RecordedLastHour) >= max_actions_per_hour
                  => ~LastValidation.safe /\ ~rate[1].passed /\ rate[1].blocking
            /\ Cardinality(RecordedLastHour) < max_actions_per_hour => rate[1].passed

\* a validation made with the limit reached: refused by the rate_limit check
C3_Witness ==
    /\ last.op = "validate"
    /\ Cardinality(RecordedLastHour) >= max_actions_per_hour
    /\ ~LastValidation.safe
    /\ ~ChecksNamed(LastValidation, "rate_limit")[1].passed

\* C4: validate for a target returns a failed, blocking cooldown check (and
\* so safe = false) exactly when the last record_action call for that target
\* (kind, namespace, name) was less than cooldown_seconds ago; calls for other
\* targets play no part.
C4_Cooldown ==
    last.op = "validate" =>
        LET cooldown == ChecksNamed(LastValidation, "cooldown")
        IN  /\ Len(cooldown) = 1
            /\ InCooldown(last.target[1]) <=> (~cooldown[1].passed /\ cooldown[1].blocking)
            /\ InCooldown(last.target[1]) => ~LastValidation.safe

\* a validation for a target in cooldown, after a later action on another target
C4_Witness ==
    /\ last.op = "validate"
    /\ InCooldown(last.target[1])
    /\ ~ChecksNamed(LastValidation, "cooldown")[1].passed
    /\ ~LastValidation.safe
    /\ recorded # <<>>
    /\ recorded[Len(recorded)].namespace # last.target[1].namespace

\* C5: in every reachable state every remediation has a terminal outcome
\* exactly when its completed_at is set.
C5_TerminalIffCompleted ==
    \A rid \in DOMAIN rems :
        (rems[rid].outcome \in TerminalOutcomes) <=> (rems[rid].completed_at # None)

\* C6: an execute call for a remediation that already has a terminal outcome
\* invokes no handler and changes none of outcome, executed_at, completed_at
\* and error_message.
C6_ImmutableWhenTerminal ==
    [][(/\ last'.op \in ExecOps
        /\ last'.rid \in DOMAIN rems
        /\ rems[last'.rid].outcome \in TerminalOutcomes)
       => /\ last'.handler = "not_called"
          /\ rems'[last'.rid].outcome = rems[last'.rid].outcome
          /\ rems'[last'.rid].executed_at = rems[last'.rid].executed_at
          /\ rems'[last'.rid].completed_at = rems[last'.rid].completed_at
          /\ rems'[last'.rid].error_message = rems[last'.rid].error_message]_vars

\* C7: an execute call that gets a registered plan past both gates leaves the
\* pending registry without the remediation's id.
C7_ExecutedLeavesRegistry ==
    [][(/\ PassedGates'
        /\ last'.rid \in DOMAIN pending_approvals)
       => last'.rid \notin DOMAIN pending_approvals']_vars

\* C8: when plan_remediation is called for a target whose validation requires
\* approval (a protected namespace), it returns a plan, whose remediation has
\* outcome PENDING_APPROVAL and whose id is a key of pending_approvals.
C8_PlannedIsPending ==
    (/\ last.op = "plan_remediation"
     /\ ~_check_protected_namespace(last.target[1]).passed)
    => /\ last.raised = None
       /\ last.result # None
       /\ rems[last.result[1]].outcome = "pending_approval"
       /\ last.result[1] \in DOMAIN pending_approvals

\* C9: an execute call that gets past both gates records the remediation in
\* the knowledge base once and calls record_action once, for the remediation's
\* target; an execute call stopped by a gate does neither.
C9_BookkeepingOnce ==
    [][last'.op \in ExecOps
       => IF PassedGates'
          THEN /\ last'.kb_calls = 1
               /\ last'.rid \in kb_remediations'
               /\ last'.record_action_calls = 1
               /\ Len(recorded') = Len(recorded) + 1
          ELSE /\ last'.kb_calls = 0
               /\ last'.record_action_calls = 0
               /\ kb_remediations' = kb_remediations
               /\ recorded' = recorded]_vars

\* C10: when the handler raises during an execute call, nothing is raised to
\* the caller and the remediation has outcome FAILED, the exception's message
\* as error message and completed_at set.
C10_HandlerRaiseIsFailed ==
    (last.op \in ExecOps /\ last.handler = "raise")
    => /\ last.raised = None
       /\ rems[last.rid].outcome = "failed"
       /\ rems[last.rid].error_message = Some(HandlerError)
       /\ rems[last.rid].completed_at = Some(now)

\* the handler of an approved, safe plan raised
C10_Witness ==
    /\ last.op \in ExecOps
    /\ last.handler = "raise"
    /\ PassedGates
    /\ rems[last.rid].outcome = "failed"
    /\ rems[last.rid].error_message = Some(HandlerError)

InverseAction(action) ==
    CASE action = "scale_memory_up" -> "scale_memory_down"
      [] action = "scale_memory_down" -> "scale_memory_up"
      [] action = "scale_cpu_up" -> "scale_cpu_down"
      [] action = "scale_cpu_down" -> "scale_cpu_up"
      [] action = "scale_replicas_up" -> "scale_replicas_down"
      [] action = "scale_replicas_down" -> "scale_replicas_up"

\* the old_* / new_* parameter names that belong together
OldNewPairs == {<<"old_memory_bytes", "new_memory_bytes">>, <<"old_replicas", "new_replicas">>}

\* the parameters with every old_* / new_* pair swapped
SwapOldNew(parameters) ==
    [k \in DOMAIN parameters |->
        IF \E pr \in OldNewPairs : pr[1] = k /\ pr[2] \in DOMAIN parameters
        THEN parameters[(CHOOSE pr \in OldNewPairs : pr[1] = k)[2]]
        ELSE IF \E pr \in OldNewPairs : pr[2] = k /\ pr[1] \in DOMAIN parameters
        THEN parameters[(CHOOSE pr \in OldNewPairs : pr[2] = k)[1]]
        ELSE parameters[k]]

\* C12: rollback of a remediation R creates a remediation R' on R's target
\* with the inverse action and R's parameters with every old_* / new_* pair
\* swapped, executed with approved_by = "system_rollback"; R and R' are linked
\* to each other if R' ends successful, and no link is set otherwise.
C12_RollbackBuildsInverse ==
    [][last'.op = "rollback"
       => LET o == last'.args[1]
              r == last'.rid
          IN  /\ r \notin DOMAIN rems
              /\ rems'[r].target_resource = rems[o].target_resource
              /\ rems'[r].action = InverseAction(rems[o].action)
              /\ rems'[r].parameters = SwapOldNew(rems[o].parameters)
              /\ last'.approved_by = Some("system_rollback")
              /\ IF is_successful(rems'[r])
                 THEN /\ rems'[o].rollback_remediation_id = Some(r)
                      /\ rems'[r].rollback_remediation_id = Some(o)
                 ELSE /\ rems'[o].rollback_remediation_id = rems[o].rollback_remediation_id
                      /\ rems'[r].rollback_remediation_id = None]_vars

\* C13: in every state, a remediation whose rollback_remediation_id names X
\* is named by X's rollback_remediation_id.
C13_LinksSymmetric ==
    \A r \in DOMAIN rems :
        rems[r].rollback_remediation_id # None
        => rems[rems[r].rollback_remediation_id[1]].rollback_remediation_id = Some(r)

\* C14: rollback of a scale_memory_up remediation that ended SUCCESS with
\* old = 512 MiB and new = 768 MiB, at any time after it (handlers working),
\* returns a scale_memory_down remediation with old = 768 MiB, new = 512 MiB
\* and outcome SUCCESS, and the two remediations name each other.
C14_RollbackPairing ==
    [][(/\ last'.op = "rollback"
        /\ last'.handler \notin {"false", "raise"}
        /\ rems[last'.args[1]].action = "scale_memory_up"
        /\ rems[last'.args[1]].outcome = "success"
        /\ rems[last'.args[1]].parameters = ParamsOk)
       => LET o == last'.args[1]
              r == last'.rid
          IN  /\ rems'[r].action = "scale_memory_down"
              /\ rems'[r].parameters["old_memory_bytes"] = 768
              /\ rems'[r].parameters["new_memory_bytes"] = 512
              /\ rems'[r].outcome = "success"
              /\ rems'[o].rollback_remediation_id = Some(r)
              /\ rems'[r].rollback_remediation_id = Some(o)]_vars

\* C15: after a rollback call that produced a successful rollback
\* remediation, the original remediation has outcome ROLLED_BACK.
C15_OriginalIsRolledBack ==
    (last.op = "rollback" /\ is_successful(rems[last.rid]))
    => rems[last.args[1]].outcome = "rolled_back"

\* the incidents _handle_incident was called for
Handled == {i \in DOMAIN brain.incidents : brain.incidents[i].handled}

\* the step was taken for the incident
HasStep(i, step) ==
    \E k \in DOMAIN brain.steps : brain.steps[k] = [incident |-> i, step |-> step]

\* the modes that execute a plan on their own
AutoModes == {"semi_auto", "auto"}

\* C16: the Brain records every incident it handles; it asks the engine for
\* a plan exactly in the modes recommend, semi_auto and auto; it executes the
\* plan exactly when the mode is semi_auto or auto and the plan's validation
\* is safe and requires no approval, for the plan of an incident as for a plan
\* handed to _handle_remediation_plan.
C16_ModeTable ==
    /\ \A i \in Handled :
        /\ HasStep(i, "record_incident")
        /\ HasStep(i, "plan") <=> brain.mode \in PlanModes
        /\ HasStep(i, "execute") <=>
              /\ brain.mode \in AutoModes
              /\ brain.incidents[i].planned.safe
              /\ ~brain.incidents[i].planned.requires_approval
    /\ last.op = "handle_plan" =>
          (last.result # None <=>
              /\ brain.mode \in AutoModes
              /\ LastValidation.safe
              /\ ~LastValidation.requires_approval)

LoopOps == {"observation_loop", "prediction_loop"}

\* every task start created has left its loop
AllLoopsDone == \A t \in DOMAIN brain.tasks : brain.tasks[t].pc = "done"

StrictOrder ==
    <<"record_incident", "pattern_induction", "plan", "validate", "execute",
      "record_remediation", "record_action">>

Rank(step) == CHOOSE n \in DOMAIN StrictOrder : StrictOrder[n] = step

C19_RaisesOnlyWithoutInput ==
    last.op = "plan_remediation" =>
        /\ last.raised # None <=>
              (last.args[1].incident = None /\ last.args[1].prediction = None)
        /\ last.raised = None => last.result # None

\* C20: for the oom_kill prediction on Pod production/api-server-abc123 made
\* from a memory limit of 1 GiB, the engine returns a plan with action
\* scale_memory_up, old_memory_bytes = 1 GiB, new_memory_bytes = 1.5 GiB and a
\* validation that is safe and requires no approval.
C20_OomPredictionPlan ==
    (/\ last.op = "plan_remediation"
     /\ last.args[1].incident = None
     /\ last.args[1].suggested_action = None
     /\ last.args[1].prediction # None
     /\ last.args[1].prediction[1].target_resource = Some(ApiServerPod))
    => LET a == last.args[1]
           action == SelectAction(a.incident, a.prediction, a.suggested_action)
           parameters == _generate_parameters(action, a.incident, a.prediction)
           validation == PlannedValidation(action_history, recent_targets, a.incident,
                                           a.prediction, a.suggested_action, now)
       IN  /\ action = "scale_memory_up"
           /\ validation.safe
           /\ ~validation.requires_approval
           /\ parameters["old_memory_bytes"] = 1024
           /\ parameters["new_memory_bytes"] = 1536
           /\ last.raised = None
           /\ last.result # None

\* where an id stands in an index: the (key, position) pairs
Places(index, id) ==
    UNION { { <<key, i>> : i \in {j \in DOMAIN index[key] : index[key][j] = id} }
            : key \in DOMAIN index }

\* the id stands in the index once, and under this key
IndexedOnceUnder(index, key, id) ==
    /\ Cardinality(Places(index, id)) = 1
    /\ \E place \in Places(index, id) : place[1] = key

\* C21: after any sequence of record_incident calls and restarts, every
\* recorded incident id is a key of the incidents map and stands exactly once
\* in the by-kind index under its kind, exactly once in the by-resource index
\* under its resource key and exactly once in the by-fingerprint index under
\* its fingerprint hash.
C21_IndexedOnce ==
    \A id \in 1..Cardinality(DOMAIN kb.incidents) :
        /\ id \in DOMAIN kb.incidents
        /\ LET incident == kb.incidents[id]
           IN  /\ IndexedOnceUnder(kb._incident_by_type, incident.type, id)
               /\ IndexedOnceUnder(kb._incident_by_fingerprint,
                                   to_hash(_compute_fingerprint(incident)), id)
               /\ incident.resource # None
               /\ IndexedOnceUnder(kb._incident_by_resource,
                                   resource_key(incident.resource[1]), id)

C23_TrailingTokenSimilar ==
    (/\ last.op = "find_similar_incidents"
     /\ last.args[1].incident.message = MsgOomKillTest
     /\ \A id \in DOMAIN kb.incidents :
            /\ kb.incidents[id].type = last.args[1].incident.type
            /\ kb.incidents[id].resource = last.args[1].incident.resource
            /\ \A other \in DOMAIN kb.incidents :
                   other # id => kb.incidents[other].message # kb.incidents[id].message)
    => Len(last.result[1]) >= Cardinality(DOMAIN kb.incidents) - 1

\* C24: after each record_incident, a fingerprint bucket of n >=
\* min_occurrences_for_pattern members has exactly one pattern, with
\* occurrence_count = n, confidence = min(1.0, n / 10) and recommended
\* actions that include the default action of the kind; a smaller bucket has
\* no pattern.
C24_PatternForBucket ==
    last.op = "record_incident" =>
        LET incident == last.args[1]
            n == Len(kb._incident_by_fingerprint[to_hash(_compute_fingerprint(incident))])
            found == {i \in DOMAIN kb.patterns : kb.patterns[i].name = pattern_name(incident)}
        IN  IF n >= min_occurrences_for_pattern
            THEN /\ Cardinality(found) = 1
                 /\ \A i \in found :
                     /\ kb.patterns[i].occurrence_count = n
                     /\ kb.patterns[i].confidence
                            = Min(RateUnit, (n * RateUnit) \div ConfidenceDivisor)
                     /\ In(default_actions(incident.type), kb.patterns[i].recommended_actions)
            ELSE found = {}

\* the position of an action in the RemediationAction enumeration
EnumPosition(action) ==
    CHOOSE i \in DOMAIN RemediationActionOrder : RemediationActionOrder[i] = action

\* C25: get_recommended_actions(kind) returns each action at most once, with
\* its empirical rate when it has at least 2 recorded outcomes for the kind
\* and otherwise the success_rate of a pattern of the kind that declares it;
\* the list is in descending order of success_rate, and actions of equal
\* success_rate are in the order of the RemediationAction enumeration.
C25_RankedRecommendations ==
    last.op = "get_recommended_actions" =>
        LET incident_type == last.args[1]
            recommendations == last.result[1]
            Stats(action) == SelectSeq(kb._remediation_success_rate,
                                 LAMBDA s : s.key = <<incident_type, action>>
                                            /\ Len(s.outcomes) >= MinOutcomes)
        IN  /\ \A i, j \in DOMAIN recommendations :
                   i # j => recommendations[i][2] # recommendations[j][2]
            /\ \A i \in DOMAIN recommendations :
                   LET rate == recommendations[i][1]
                       action == recommendations[i][2]
                   IN  IF Stats(action) # <<>>
                       THEN rate = (Successes(Stats(action)[1].outcomes) * RateUnit)
                                       \div Len(Stats(action)[1].outcomes)
                       ELSE \E p \in DOMAIN kb.patterns :
                               /\ In(incident_type, kb.patterns[p].incident_types)
                               /\ In(action, kb.patterns[p].recommended_actions)
                               /\ kb.patterns[p].success_rate = rate
            /\ \A i, j \in DOMAIN recommendations :
                   i < j =>
                       \/ recommendations[i][1] > recommendations[j][1]
                       \/ /\ recommendations[i][1] = recommendations[j][1]
                          /\ EnumPosition(recommendations[i][2])
                                 < EnumPosition(recommendations[j][2])

\* C26: when the rewrite of patterns.json fails with an I/O error during
\* record_incident, the call still returns the incident id; the incident is
\* in the incidents map and in the indexes and the induced or updated
\* pattern is in memory.
C26_PatternIoErrorNotRaised ==
    (last.op = "record_incident" /\ last.io = "error") =>
        LET incident == last.args[1]
            hash == to_hash(_compute_fingerprint(incident))
        IN  /\ incident.id \in DOMAIN kb.incidents
            /\ IndexedOnceUnder(kb._incident_by_type, incident.type, incident.id)
            /\ IndexedOnceUnder(kb._incident_by_fingerprint, hash, incident.id)
            /\ \E i \in DOMAIN kb.patterns :
                   /\ kb.patterns[i].name = pattern_name(incident)
                   /\ kb.patterns[i].occurrence_count = Len(kb._incident_by_fingerprint[hash])
            /\ last.raised = None
            /\ last.result = Some(incident.id)

\* the attributes of an incident that a restart has to keep
Essential(incident) ==
    [id |-> incident.id, type |-> incident.type, severity |-> incident.severity,
     resource |-> incident.resource, message |-> incident.message,
     details |-> incident.details, occurred_at |-> incident.occurred_at,
     detected_at |-> incident.detected_at, resolved_at |-> incident.resolved_at,
     tags |-> incident.tags]

C29_NormalizeIdempotent ==
    last.op = "_normalize_error_message" =>
        _normalize_error_message(last.result[1]) = last.result[1]

\* the bound the handler is given: twice the estimated duration, at least 30 s
HandlerTimeout(action) ==
    IF 2 * _estimate_duration(action) > 30 THEN 2 * _estimate_duration(action) ELSE 30

\* C28: every handler invocation of execute is bounded by max(30 s, 2 x
\* estimated_duration_seconds): once that time has passed since executed_at
\* the execution has ended, and one ended by the bound has outcome FAILED and
\* the error message "timeout".
C28_HandlerTimeout ==
    \A rid \in DOMAIN rems :
        LET r == rems[rid]
        IN  (r.executed_at # None /\ now >= r.executed_at[1] + HandlerTimeout(r.action)) =>
                /\ ~InHandler(r)
                /\ r.completed_at[1] >= r.executed_at[1] + HandlerTimeout(r.action) =>
                       (r.outcome = "failed" /\ r.error_message = Some(<<"timeout">>))

\* C30: for the metrics of scenario 1 (CPU 0.8 of 1.0, memory 900 MiB of 1 GiB)
\* submitted for Pod production/api-server-abc123 with no other metric history,
\* predict_for_resource returns probability > 0.5 and the incident type oom_kill.
C30_Scenario1Prediction ==
    (/\ last.op = "predict_for_resource"
     /\ last.args = <<ApiServerAbc123, Scenario1Metrics>>
     /\ Len(brain.failure_predictor.series) = 1)
        => /\ last.result.probability * 2 > ProbabilityUnit
           /\ last.result.incident_type = "oom_kill"

\* the approval triggers of a validate call, in the order of evaluation, each
\* with the reason it gives
ApprovalTriggers(action, td, cluster_state) ==
    (IF ~_check_protected_namespace(td).passed
     THEN <<<<"Target is in protected namespace: ", td.namespace>>>> ELSE <<>>)
    \o (IF ~_check_protected_workload(td).passed THEN <<WorkloadMessage(td)>> ELSE <<>>)
    \o (IF action \in high_risk_actions THEN <<<<"High-risk action: ", action>>>> ELSE <<>>)
    \o (IF /\ cluster_state # None
           /\ _check_blast_radius(action, td, cluster_state[1]).risk_level = "high"
        THEN <<BlastMessage(action, cluster_state[1])>> ELSE <<>>)

\* C31: when several approval-triggering checks apply to one validate call
\* (protected namespace, protected workload, high-risk action, node blast
\* radius, in that order), requires_approval is true and approval_reason names
\* the first of them that triggered.
C31_FirstTriggerIsReason ==
    (last.op = "validate" /\ last.args # None) =>
        LET triggers == ApprovalTriggers(last.args[1], last.args[2], last.args[4])
            v == last.validation[1]
        IN  /\ v.requires_approval = (triggers # <<>>)
            /\ triggers # <<>> => v.approval_reason = Some(Head(triggers))

\* C32: every safety validation, those the engine performs included, contains
\* a blast_radius check: the validation a rollback was executed under has one.
C32_EngineValidationHasBlastRadius ==
    (last.op = "rollback" /\ last.validation # None) =>
        ChecksNamed(last.validation[1], "blast_radius") # <<>>

\* C33: for an incident with no suggested action the engine chooses the
\* knowledge base's top recommendation when its success rate is above 0.6,
\* and otherwise the default of the incident's kind: scale_memory_up for
\* oom_kill and eviction, restart_pod for crash_loop, readiness_fail and
\* liveness_fail, cordon_node for node_not_ready, notify_only for
\* node_memory_pressure, scale_replicas_up for resource_exhaustion,
\* rollback_deployment for deployment_fail, notify_only for any other kind.
C33_SelectedAction ==
    last.op = "_select_action_for_incident" =>
        LET type == last.args[1].type
            recommendations == IF last.args[1].knowledge_base
                               THEN get_recommended_actions(kb, type) ELSE <<>>
        IN  last.result[1] =
                IF recommendations # <<>> /\ recommendations[1][1] * 10 > 6 * RateUnit
                THEN recommendations[1][2]
                ELSE IF type \in {"oom_kill", "eviction"} THEN "scale_memory_up"
                ELSE IF type \in {"crash_loop", "readiness_fail", "liveness_fail"}
                     THEN "restart_pod"
                ELSE IF type = "node_not_ready" THEN "cordon_node"
                ELSE IF type = "node_memory_pressure" THEN "notify_only"
                ELSE IF type = "resource_exhaustion" THEN "scale_replicas_up"
                ELSE IF type = "deployment_fail" THEN "rollback_deployment"
                ELSE "notify_only"

\* a recommendation above 0.6 replaced the default of the kind
C33_Witness ==
    /\ last.op = "_select_action_for_incident"
    /\ last.args[1].knowledge_base
    /\ get_recommended_actions(kb, last.args[1].type) # <<>>
    /\ get_recommended_actions(kb, last.args[1].type)[1][1] > min_recommended_rate
    /\ last.result[1] # default_actions(last.args[1].type)

\* a pattern whose kinds contain the kind and whose recommended actions
\* contain the action
PatternMatches(pattern, incident_type, action) ==
    /\ \E j \in DOMAIN pattern.incident_types : pattern.incident_types[j].value = incident_type
    /\ \E j \in DOMAIN pattern.recommended_actions :
           pattern.recommended_actions[j].value = action

\* C34: in every state reached by record_incident and record_remediation each
\* pattern has a success_rate within [0, 1] and an occurrence_count of at
\* least min_occurrences_for_pattern; record_remediation changes the
\* success_rate of exactly the patterns whose kinds contain the incident's
\* kind and whose recommended actions contain the action, to
\* 0.1 * (1 if the outcome is a success, else 0) + 0.9 * success_rate.
C34_PatternRates ==
    [][ /\ \A i \in DOMAIN kb'.patterns :
              /\ kb'.patterns[i].success_rate >= 0
              /\ kb'.patterns[i].success_rate <= RateUnit
              /\ kb'.patterns[i].occurrence_count >= min_occurrences_for_pattern
        /\ last'.op = "record_remediation" =>
              /\ DOMAIN kb'.patterns = DOMAIN kb.patterns
              /\ \A i \in DOMAIN kb.patterns :
                    IF PatternMatches(kb.patterns[i],
                                      kb.incidents[last'.args[1].incident_id].type,
                                      last'.args[1].action)
                    THEN 10 * kb'.patterns[i].success_rate =
                             (IF last'.args[1].outcome \in {"success", "partial_success"}
                              THEN RateUnit ELSE 0)
                             + 9 * kb.patterns[i].success_rate
                    ELSE kb'.patterns[i].success_rate = kb.patterns[i].success_rate
      ]_vars

\* a remediation was recorded for an incident of a kind that a pattern does
\* not hold, with an action the pattern recommends, after the pattern's rate
\* had moved
C34_Witness ==
    /\ last.op = "record_remediation"
    /\ \E i \in DOMAIN kb.patterns :
          /\ kb.patterns[i].success_rate # RateUnit \div 2
          /\ ~In(kb.incidents[last.args[1].incident_id].type, kb.patterns[i].incident_types)
          /\ In(last.args[1].action, kb.patterns[i].recommended_actions)

\* C35: the ensemble probability is 0.3 * p_anomaly + 0.4 * p_time_series
\* + 0.3 * p_pattern, replaced by min(0.98, 1.3 * sum) if and only if at least
\* two of the three signals have a probability above 0.5; it is within [0, 1].
C35_EnsembleProbability ==
    (last.op = "predict_for_resource" /\ Len(last.args) = 3) =>
        LET signals == last.args[3]
            sum == (3 * signals.anomaly.probability + 4 * signals.time_series.probability
                       + 3 * signals.pattern) \div 10
            triggered ==
                Cardinality({s \in {<<1, signals.anomaly.probability>>,
                                    <<2, signals.time_series.probability>>,
                                    <<3, signals.pattern>>} :
                                s[2] > ProbabilityUnit \div 2})
        IN  /\ last.result.probability =
                   IF triggered >= 2
                   THEN Min((98 * ProbabilityUnit) \div 100, (sum * 13) \div 10)
                   ELSE sum
            /\ last.result.probability \in 0..ProbabilityUnit

\* C36: whenever execute invokes a handler (called directly, through a later
\* approval or through rollback), fewer than max_actions_per_hour actions
\* were recorded in the hour before and none was recorded on the target of
\* the remediation within the cooldown_seconds before.
C36_ExecutionWithinLimits ==
    [][(last'.op \in ExecOps /\ last'.handler # "not_called")
       => /\ Cardinality(RecordedLastHour) < max_actions_per_hour
          /\ ~InCooldown(TargetDict(rems'[last'.rid].target_resource))]_vars

\* C37: a remediation whose handler returned true ends with outcome SUCCESS;
\* a failure of the bookkeeping after the handler (the knowledge base's
\* record_remediation and its save of the patterns, record_action) does not
\* turn it into FAILED.
C37_HandlerTrueIsSuccess ==
    (last.op = "execute" /\ last.handler = "true") => rems[last.rid].outcome = "success"

\* C40: an execute that ends with outcome DRY_RUN, or SKIPPED because no
\* handler is registered for the action, leaves the outcome lists per
\* (incident kind, action) and the success_rate of every pattern unchanged.
C40_NothingLearnedFromNothingApplied ==
    [][(/\ last'.op = "execute"
        /\ last'.kb_calls > 0
        /\ rems'[last'.rid].outcome \in {"dry_run", "skipped"})
       => /\ kb'._remediation_success_rate = kb._remediation_success_rate
          /\ \A i \in DOMAIN kb.patterns :
                kb'.patterns[i].success_rate = kb.patterns[i].success_rate]_vars

\* the loops of a kind that have not left their while loop
LiveLoops(loop) ==
    {t \in DOMAIN brain.tasks : brain.tasks[t].loop = loop /\ brain.tasks[t].pc # "done"}

\* C38: under any sequence of start() and stop() calls a running Brain has at
\* most one observation loop and at most one prediction loop, also when
\* start() follows stop() before the old loops woke up.
C38_OneLoopOfAKind ==
    brain.is_running =>
        /\ Cardinality(LiveLoops("observation")) <= 1
        /\ Cardinality(LiveLoops("prediction")) <= 1

\* the names of the patterns stand once each
OnePatternPerName(patterns) ==
    \A i, j \in DOMAIN patterns : patterns[i].name = patterns[j].name => i = j

\* C39: a KnowledgeBase re-created on a storage directory holds the patterns
\* that were saved (kinds, recommended actions, counts, last_seen), and a
\* later record_incident that touches them completes without error and
\* updates the one pattern of the fingerprint.
C39_PatternsSurviveRestart ==
    [][ /\ (last'.op = "KnowledgeBase" /\ kb.storage.patterns_json # None) =>
              LET saved == kb.storage.patterns_json[1]
              IN  /\ DOMAIN kb'.patterns = DOMAIN saved
                  /\ \A i \in DOMAIN saved :
                        /\ kb'.patterns[i].name = saved[i].name
                        /\ \A j \in DOMAIN saved[i].incident_types :
                              kb'.patterns[i].incident_types[j].value
                                  = saved[i].incident_types[j].value
                        /\ \A j \in DOMAIN saved[i].recommended_actions :
                              kb'.patterns[i].recommended_actions[j].value
                                  = saved[i].recommended_actions[j].value
                        /\ kb'.patterns[i].occurrence_count = saved[i].occurrence_count
                        /\ kb'.patterns[i].last_seen = saved[i].last_seen
        /\ last'.op = "record_incident" =>
              /\ last'.raised = None
              /\ OnePatternPerName(kb'.patterns)
      ]_vars

====
